---------------------------- MODULE Spec2Model ----------------------------
(***************************************************************************)
(* GoAtar: five grid-world games (Asterix, Breakout, Freeway, SeaQuest,    *)
(* SpaceInvaders) behind the game.Game interface.  One game instance is    *)
(* constructed by New(ramping, seed); the caller then issues Act(a) and    *)
(* Reset() calls.  Every Act is one atomic step.                           *)
(***************************************************************************)
EXTENDS Integers, Sequences, FiniteSets, TLC

VARIABLES
    game,      \* which game New constructed
    ramping,   \* the ramping argument of New
    rng,       \* state of the instance's seeded generator (rand.Rand)
    ast,       \* fields of *Asterix
    brk,       \* fields of *Breakout
    fw,        \* fields of *Freeway
    sq,        \* fields of *SeaQuest
    si,        \* fields of *SpaceInvaders
    sortImpl,  \* the sort implementation of the Go release the build uses
    ret,       \* the call made last and what it returned
    frames,    \* Act calls that advanced the game since the last Reset
    resets,    \* Reset calls made by the caller
    ended,     \* an Act call has returned terminal=true since the last Reset
    env        \* firstAction and lastAction of the Environment wrapper

vars == <<game, ramping, sortImpl, rng, ast, brk, fw, sq, si, ret, frames, resets,
          ended, env>>

(***************************************************************************)
(* Bounds of the exploration.                                              *)
(***************************************************************************)
\* seeds the constructor is called with
NumSeeds == 2
\* frames at the start of an episode in which the caller tries every action
\* code (five moves take the player from its start cell to any edge);
\* afterwards it plays the no-op
Explore == 5
\* frames of an episode the caller plays, per game (a Freeway episode is
\* played until its frame budget ends it)
AsterixFrames == 110

BreakoutFrames == 16

SeaQuestFrames == 6

SpaceInvadersFrames == 18
\* frames of a SeaQuest episode the diving caller plays
DiveFrames == 70

\* frames of a SeaQuest episode the scripted caller plays
ScriptFrames == 270

\* frames of a SpaceInvaders episode the scripted caller plays
InvaderFrames == 133
\* Reset calls the caller makes
MaxResets == 1

\* Act calls of the caller who dodges through an Asterix episode: the ninth
\* ramp increment falls on call 918
DodgeFrames == 930

(***************************************************************************)
(* Shared helpers: internal/game/Game.go                                   *)
(***************************************************************************)
MinInt(a, b) == IF b < a THEN b ELSE a

MaxInt(a, b) == IF b > a THEN b ELSE a

ClipInt(value, min, max) ==
    IF value < min THEN min ELSE IF value > max THEN max ELSE value

Abs(n) == IF n < 0 THEN -n ELSE n

\* the action alphabet every game constructs in New (Go index i is i+1 here)
actionMap == <<"n", "l", "u", "r", "d", "f">>

NumActions == 6

\* the action codes the caller passes: all valid ones and both neighbours
\* of the valid range
ActionCodes == -1 .. NumActions

(***************************************************************************)
(* The seeded generator.  rand.New(rand.NewSource(seed)) is a              *)
(* deterministic stream owned by the instance; it is modelled by a linear  *)
(* congruential stream.  Intn(r, n) is the value drawn in [0, n) and       *)
(* Advance(r) the generator state after the draw.                          *)
(***************************************************************************)
rngModulus == 65537

Advance(r) == (75 * r + 74) % rngModulus

Intn(r, n) == (Advance(r) \div 8) % n

NewSource(seed) == (seed * 7919 + 104729) % rngModulus

(***************************************************************************)
(* What a call returns.  err is "nil", "error" (a non-nil error value) or  *)
(* "panic" (the call does not return: a Go run-time panic); pre is the     *)
(* game's terminal flag when the call was made.                            *)
(***************************************************************************)
Ret(op, pre, reward, terminal, err) ==
    [op |-> op, pre |-> pre, reward |-> reward, terminal |-> terminal,
     err |-> err]

\* Result of one Act: the new fields, the new generator state and the
\* returned triple.
Out(s, r, reward, terminal, err) ==
    [s |-> s, rng |-> r, reward |-> reward, terminal |-> terminal, err |-> err]


(***************************************************************************)
(* Asterix: internal/game/asterix                                          *)
(***************************************************************************)
rows == 10

cols == rows

initSpawnSpeed == 10

initMoveInterval == 5

rampInterval == 100

maxEntities == 8

\* an empty slot of a.entities (a nil *entity)
NilEntity == [live |-> FALSE, x |-> 0, y |-> 0, dir |-> 0, gold |-> FALSE]

newEntity(x, y, orientedRight, isGold) ==
    [live |-> TRUE, x |-> x, y |-> y,
     dir |-> IF orientedRight THEN 1 ELSE -1, gold |-> isGold]

\* entity.move()
EntityMove(e) == [e EXCEPT !.x = e.x + e.dir]

\* the entity has left the screen only when it is left of column 0
EntityOff_LeftOnly(e) == e.x < 0

\* "Entity moves off the screen" in Asterix.Act
EntityOff(e) == e.x < 0 \/ e.x > cols - 1

\* player.moveLeft / moveRight / moveUp / moveDown
AsterixMoveLeft(s) == [s EXCEPT !.x = MaxInt(0, s.x - 1)]

AsterixMoveRight(s) == [s EXCEPT !.x = MinInt(cols - 1, s.x + 1)]

AsterixMoveUp(s) == [s EXCEPT !.y = MaxInt(1, s.y - 1)]

AsterixMoveDown(s) == [s EXCEPT !.y = MinInt(rows - 2, s.y + 1)]

\* player.canMove()
AsterixCanMove(s) == s.moveTimer <= 0

\* Asterix.Reset(): the fields after a reset (the generator is not used)
AsterixResetState ==
    [x |-> rows \div 2, y |-> cols \div 2, moveTimer |-> initMoveInterval,
     entities |-> [i \in 0 .. maxEntities - 1 |-> NilEntity],
     spawnSpeed |-> initSpawnSpeed, spawnTimer |-> initSpawnSpeed,
     moveSpeed |-> initMoveInterval, rampTimer |-> rampInterval,
     rampIndex |-> 0, terminal |-> FALSE]

\* the elements of a finite set of integers in increasing order
RECURSIVE Ascending(_)
Ascending(S) ==
    IF S = {} THEN <<>>
    ELSE LET m == CHOOSE a \in S : \A b \in S : a <= b
         IN  <<m>> \o Ascending(S \ {m})

\* every slot offered to the draw, taken or not
slotOptions_All(s) ==
    Ascending(0 .. maxEntities - 1)

\* the empty slots of a.entities in index order (slotOptions)
slotOptions(s) ==
    Ascending({i \in 0 .. maxEntities - 1 : ~s.entities[i].live})

\* the entity of spawnEntity: side lr, gold flag, in the slot drawn by the
\* generator state r2 among the empty slots
spawnInSlot(s, lr, isGold, slot) ==
    [s EXCEPT !.entities[slot] =
        newEntity(IF lr = 1 THEN 0 ELSE cols - 1, slot + 1, lr = 1, isGold)]

\* Asterix.spawnEntity(): three draws (side, gold, slot); the slot draw is
\* skipped when every slot is taken
spawnEntity(s, r) ==
    IF Len(slotOptions(s)) = 0
    THEN [s |-> s, rng |-> Advance(Advance(r))]
    ELSE [s   |-> spawnInSlot(s, Intn(r, 2), Intn(Advance(r), 3) = 0,
                      slotOptions(s)[Intn(Advance(Advance(r)),
                                          Len(slotOptions(s))) + 1]),
          rng |-> Advance(Advance(Advance(r)))]

\* "Spawn enemy if timer is up"; w carries the fields, the generator and the
\* reward of the call through the steps of Act
AsterixSpawn(s, r) ==
    IF s.spawnTimer <= 0
    THEN [spawnEntity(s, r) EXCEPT !.s.spawnTimer = s.spawnSpeed]
    ELSE [s |-> s, rng |-> r]

\* "Resolve player action"
AsterixAction(s, action) ==
    CASE action = "l" -> AsterixMoveLeft(s)
      [] action = "r" -> AsterixMoveRight(s)
      [] action = "u" -> AsterixMoveUp(s)
      [] action = "d" -> AsterixMoveDown(s)
      [] OTHER        -> s

\* entity e is on the agent's cell
AtAgent(s, e) == e.live /\ e.x = s.x /\ e.y = s.y

\* an update that leaves collected gold on the board
AsterixCollect_KeepGold(s) ==
    [s EXCEPT
       !.terminal = s.terminal \/
                    \E i \in 0 .. maxEntities - 1 :
                       AtAgent(s, s.entities[i]) /\ ~s.entities[i].gold]

\* "Update entities": gold under the agent is collected, anything else under
\* the agent ends the episode
AsterixCollect(s) ==
    [s EXCEPT
       !.entities = [i \in 0 .. maxEntities - 1 |->
                       IF AtAgent(s, s.entities[i]) /\ s.entities[i].gold
                       THEN NilEntity ELSE s.entities[i]],
       !.terminal = s.terminal \/
                    \E i \in 0 .. maxEntities - 1 :
                       AtAgent(s, s.entities[i]) /\ ~s.entities[i].gold]

AsterixCollectReward(s) ==
    Cardinality({i \in 0 .. maxEntities - 1 :
                    AtAgent(s, s.entities[i]) /\ s.entities[i].gold})

\* the slot of a moved entity m: emptied when m left the screen or is gold
\* under the agent
AsterixMoved(s, m) ==
    IF EntityOff(m) THEN NilEntity
    ELSE IF AtAgent(s, m) /\ m.gold THEN NilEntity
    ELSE m

\* a housekeeping that moves the entities on every call
AsterixHousekeeping_EveryCall(s) ==
    [s EXCEPT
       !.moveTimer = IF AsterixCanMove(s) THEN s.moveSpeed ELSE s.moveTimer,
       !.entities  = [i \in 0 .. maxEntities - 1 |->
                        IF ~s.entities[i].live THEN s.entities[i]
                        ELSE AsterixMoved(s, EntityMove(s.entities[i]))],
       !.terminal  = s.terminal \/
                     \E i \in 0 .. maxEntities - 1 :
                        /\ s.entities[i].live
                        /\ AtAgent(s, EntityMove(s.entities[i]))
                        /\ ~s.entities[i].gold]

\* "Housekeeping when the agent can move": the move timer restarts and every
\* entity moves one column
AsterixHousekeeping(s) ==
    IF ~AsterixCanMove(s) THEN s
    ELSE [s EXCEPT
            !.moveTimer = s.moveSpeed,
            !.entities  = [i \in 0 .. maxEntities - 1 |->
                             IF ~s.entities[i].live THEN s.entities[i]
                             ELSE AsterixMoved(s, EntityMove(s.entities[i]))],
            !.terminal  = s.terminal \/
                          \E i \in 0 .. maxEntities - 1 :
                             /\ s.entities[i].live
                             /\ AtAgent(s, EntityMove(s.entities[i]))
                             /\ ~s.entities[i].gold]

AsterixHousekeepingReward(s) ==
    IF ~AsterixCanMove(s) THEN 0
    ELSE Cardinality({i \in 0 .. maxEntities - 1 :
                         /\ s.entities[i].live
                         /\ AtAgent(s, EntityMove(s.entities[i]))
                         /\ s.entities[i].gold})

\* "Update timers"
AsterixTimers(s) ==
    [s EXCEPT
       !.spawnTimer = IF s.spawnTimer > 0
                      THEN s.spawnTimer - 1 ELSE s.spawnTimer,
       !.moveTimer  = IF s.moveTimer > 0
                      THEN s.moveTimer - 1 ELSE s.moveTimer]

\* a difficulty update that lowers the move interval on every increment
AsterixRamp_NoParity(s, ramp) ==
    IF ramp /\ (s.spawnSpeed > 1 \/ s.moveSpeed > 1)
    THEN IF s.rampTimer >= 0
         THEN [s EXCEPT !.rampTimer = s.rampTimer - 1]
         ELSE [s EXCEPT
                 !.moveSpeed  = IF s.moveSpeed > 1
                                THEN s.moveSpeed - 1 ELSE s.moveSpeed,
                 !.spawnSpeed = IF s.spawnSpeed > 1
                                THEN s.spawnSpeed - 1 ELSE s.spawnSpeed,
                 !.rampIndex  = s.rampIndex + 1,
                 !.rampTimer  = rampInterval]
    ELSE s

\* the difficulty update without the test of the ramping flag
AsterixRamp_Unguarded(s, ramp) ==
    IF s.spawnSpeed > 1 \/ s.moveSpeed > 1
    THEN IF s.rampTimer >= 0
         THEN [s EXCEPT !.rampTimer = s.rampTimer - 1]
         ELSE [s EXCEPT
                 !.moveSpeed  = IF s.moveSpeed > 1 /\ s.rampIndex % 2 = 1
                                THEN s.moveSpeed - 1 ELSE s.moveSpeed,
                 !.spawnSpeed = IF s.spawnSpeed > 1
                                THEN s.spawnSpeed - 1 ELSE s.spawnSpeed,
                 !.rampIndex  = s.rampIndex + 1,
                 !.rampTimer  = rampInterval]
    ELSE s

\* the difficulty update at the end of Asterix.Act
AsterixRamp(s, ramp) ==
    IF ramp /\ (s.spawnSpeed > 1 \/ s.moveSpeed > 1)
    THEN IF s.rampTimer >= 0
         THEN [s EXCEPT !.rampTimer = s.rampTimer - 1]
         ELSE [s EXCEPT
                 !.moveSpeed  = IF s.moveSpeed > 1 /\ s.rampIndex % 2 = 1
                                THEN s.moveSpeed - 1 ELSE s.moveSpeed,
                 !.spawnSpeed = IF s.spawnSpeed > 1
                                THEN s.spawnSpeed - 1 ELSE s.spawnSpeed,
                 !.rampIndex  = s.rampIndex + 1,
                 !.rampTimer  = rampInterval]
    ELSE s

\* Act from the first pass over the entities on: s1 are the fields after the
\* player's move, s2 after the first pass
AsterixAfterCollect(s1, s2, r, ramp) ==
    Out(AsterixRamp(AsterixTimers(AsterixHousekeeping(s2)), ramp), r,
        AsterixCollectReward(s1) + AsterixHousekeepingReward(s2),
        AsterixHousekeeping(s2).terminal, "nil")

AsterixAfterAction(s1, r, ramp) ==
    AsterixAfterCollect(s1, AsterixCollect(s1), r, ramp)

AsterixAfterSpawn(w, ramp, act) ==
    AsterixAfterAction(AsterixAction(w.s, actionMap[act + 1]), w.rng, ramp)

\* the body of Asterix.Act for a valid action in a running episode
AsterixFrame(s, r, ramp, act) ==
    AsterixAfterSpawn(AsterixSpawn(s, r), ramp, act)

\* Asterix.Act without the early return of an ended episode
AsterixAct_NoAbsorb(s, r, ramp, act) ==
    IF act >= Len(actionMap) \/ act < 0
    THEN Out(s, r, -1, s.terminal, "error")
    ELSE AsterixFrame(s, r, ramp, act)

\* Asterix.Act
AsterixAct(s, r, ramp, act) ==
    IF act >= Len(actionMap) \/ act < 0
    THEN Out(s, r, -1, s.terminal, "error")
    ELSE IF s.terminal
    THEN Out(s, r, 0, s.terminal, "nil")
    ELSE AsterixFrame(s, r, ramp, act)

(***************************************************************************)
(* Breakout: internal/game/breakout.  brickMap is the set of <<row, col>>  *)
(* cells whose matrix element is 1.                                        *)
(***************************************************************************)
\* the rows Reset and the refill set to bricks: i < 4*rows/10
brickRows == (4 * rows) \div 10

FullBricks == (0 .. brickRows - 1) \X (0 .. cols - 1)

\* containsNonZero(b.brickMap)
containsNonZero(bricks) == bricks # {}

\* Breakout.Reset(): one draw chooses the side the ball starts on
BreakoutReset(r) ==
    LET ballStart == Intn(r, 2)
        ballX     == <<0, 9>>[ballStart + 1]
    IN  [s |-> [ballY |-> 3, ballStart |-> ballStart, ballX |-> ballX,
                ballDir |-> <<2, 3>>[ballStart + 1], position |-> 4,
                brickMap |-> FullBricks, strike |-> FALSE,
                lastX |-> ballX, lastY |-> 3, terminal |-> FALSE],
         rng |-> Advance(r)]

\* "Resolve player action" in Breakout.Act
BreakoutPaddle(position, action) ==
    CASE action = "l" -> MaxInt(0, position - 1)
      [] action = "r" -> MaxInt(rows - 1, position + 1)
      [] OTHER        -> position

\* a frame in which the ball breaks the brick it hits and the one above it
BreakoutFrame_TwoBricks(s, r, act) ==
    LET position == BreakoutPaddle(s.position, actionMap[act + 1])
        lastX == s.ballX
        lastY == s.ballY
        nx0 == IF s.ballDir \in {0, 3} THEN s.ballX - 1 ELSE s.ballX + 1
        ny0 == IF s.ballDir \in {0, 1} THEN s.ballY - 1 ELSE s.ballY + 1
        side == nx0 < 0 \/ nx0 > rows - 1
        newX == IF side THEN ClipInt(nx0, 0, rows - 1) ELSE nx0
        dir1 == IF side THEN <<1, 0, 3, 2>>[s.ballDir + 1] ELSE s.ballDir
        flip == <<3, 2, 1, 0>>[dir1 + 1]
        top    == ny0 < 0
        brick  == ~top /\ <<ny0, newX>> \in s.brickMap
        bottom == ~top /\ ~brick /\ ny0 = cols - 1
        hit    == brick /\ ~s.strike
        refill == bottom /\ containsNonZero(s.brickMap)
        under  == bottom /\ s.ballX = position
        beside == bottom /\ ~under /\ newX = position
        newY == CASE top             -> 0
                  [] hit             -> lastY
                  [] under \/ beside -> lastY
                  [] OTHER           -> ny0
        dir2 == CASE top    -> flip
                  [] hit    -> flip
                  [] under  -> flip
                  [] beside -> <<2, 3, 0, 1>>[dir1 + 1]
                  [] OTHER  -> dir1
        bricks == CASE hit    -> s.brickMap \ {<<ny0, newX>>, <<ny0 - 1, newX>>}
                    [] refill -> FullBricks
                    [] OTHER  -> s.brickMap
        terminal == bottom /\ ~under /\ ~beside
        s1 == [s EXCEPT !.position = position, !.lastX = lastX,
                        !.lastY = lastY, !.ballX = newX, !.ballY = newY,
                        !.ballDir = dir2, !.brickMap = bricks,
                        !.strike = brick, !.terminal = terminal]
    IN  Out(s1, r, IF hit THEN 1 ELSE 0, terminal, "nil")

\* a frame that ends the episode although the paddle is under the column the
\* ball arrives in
BreakoutFrame_CurrentColumnOnly(s, r, act) ==
    LET position == BreakoutPaddle(s.position, actionMap[act + 1])
        lastX == s.ballX
        lastY == s.ballY
        nx0 == IF s.ballDir \in {0, 3} THEN s.ballX - 1 ELSE s.ballX + 1
        ny0 == IF s.ballDir \in {0, 1} THEN s.ballY - 1 ELSE s.ballY + 1
        side == nx0 < 0 \/ nx0 > rows - 1
        newX == IF side THEN ClipInt(nx0, 0, rows - 1) ELSE nx0
        dir1 == IF side THEN <<1, 0, 3, 2>>[s.ballDir + 1] ELSE s.ballDir
        flip == <<3, 2, 1, 0>>[dir1 + 1]
        top    == ny0 < 0
        brick  == ~top /\ <<ny0, newX>> \in s.brickMap
        bottom == ~top /\ ~brick /\ ny0 = cols - 1
        hit    == brick /\ ~s.strike
        refill == bottom /\ containsNonZero(s.brickMap)
        under  == bottom /\ s.ballX = position
        beside == bottom /\ ~under /\ newX = position
        newY == CASE top             -> 0
                  [] hit             -> lastY
                  [] under \/ beside -> lastY
                  [] OTHER           -> ny0
        dir2 == CASE top    -> flip
                  [] hit    -> flip
                  [] under  -> flip
                  [] beside -> <<2, 3, 0, 1>>[dir1 + 1]
                  [] OTHER  -> dir1
        bricks == CASE hit    -> s.brickMap \ {<<ny0, newX>>}
                    [] refill -> FullBricks
                    [] OTHER  -> s.brickMap
        terminal == bottom /\ ~under
        s1 == [s EXCEPT !.position = position, !.lastX = lastX,
                        !.lastY = lastY, !.ballX = newX, !.ballY = newY,
                        !.ballDir = dir2, !.brickMap = bricks,
                        !.strike = brick, !.terminal = terminal]
    IN  Out(s1, r, IF hit THEN 1 ELSE 0, terminal, "nil")

\* the body of Breakout.Act for a valid action in a running episode
BreakoutFrame(s, r, act) ==
    LET position == BreakoutPaddle(s.position, actionMap[act + 1])
        lastX == s.ballX
        lastY == s.ballY
        nx0 == IF s.ballDir \in {0, 3} THEN s.ballX - 1 ELSE s.ballX + 1
        ny0 == IF s.ballDir \in {0, 1} THEN s.ballY - 1 ELSE s.ballY + 1
        side == nx0 < 0 \/ nx0 > rows - 1
        newX == IF side THEN ClipInt(nx0, 0, rows - 1) ELSE nx0
        dir1 == IF side THEN <<1, 0, 3, 2>>[s.ballDir + 1] ELSE s.ballDir
        flip == <<3, 2, 1, 0>>[dir1 + 1]
        top    == ny0 < 0
        brick  == ~top /\ <<ny0, newX>> \in s.brickMap
        bottom == ~top /\ ~brick /\ ny0 = cols - 1
        hit    == brick /\ ~s.strike
        refill == bottom /\ containsNonZero(s.brickMap)
        under  == bottom /\ s.ballX = position
        beside == bottom /\ ~under /\ newX = position
        newY == CASE top             -> 0
                  [] hit             -> lastY
                  [] under \/ beside -> lastY
                  [] OTHER           -> ny0
        dir2 == CASE top    -> flip
                  [] hit    -> flip
                  [] under  -> flip
                  [] beside -> <<2, 3, 0, 1>>[dir1 + 1]
                  [] OTHER  -> dir1
        bricks == CASE hit    -> s.brickMap \ {<<ny0, newX>>}
                    [] refill -> FullBricks
                    [] OTHER  -> s.brickMap
        terminal == bottom /\ ~under /\ ~beside
        s1 == [s EXCEPT !.position = position, !.lastX = lastX,
                        !.lastY = lastY, !.ballX = newX, !.ballY = newY,
                        !.ballDir = dir2, !.brickMap = bricks,
                        !.strike = brick, !.terminal = terminal]
    IN  Out(s1, r, IF hit THEN 1 ELSE 0, terminal, "nil")

\* Breakout.Act
BreakoutAct(s, r, act) ==
    IF act >= Len(actionMap) \/ act < 0
    THEN Out(s, r, -1, FALSE, "error")
    ELSE IF s.terminal
    THEN Out(s, r, 0, s.terminal, "nil")
    ELSE IF s.ballDir \notin 0 .. 3
    THEN Out([s EXCEPT !.position =
                  BreakoutPaddle(s.position, actionMap[act + 1]),
                  !.lastX = s.ballX, !.lastY = s.ballY],
             r, 0, FALSE, "error")
    ELSE BreakoutFrame(s, r, act)

(***************************************************************************)
(* Freeway: package freeway.  Row i of the cars matrix is cars[i] with     *)
(* fields x (column 0), y (column 1), timer (column 2), speed (column 3).  *)
(***************************************************************************)
playerSpeed == 3

timeLimit == 2500

\* rows of the cars matrix (the package's rows constant)
freewayRows == 8

\* the generator state after n draws
RECURSIVE AdvanceBy(_, _)
AdvanceBy(r, n) == IF n = 0 THEN r ELSE AdvanceBy(Advance(r), n - 1)

\* a redraw that also sends every car back to column 0
randomizeCars_Restart(cars, r, init) ==
    LET direction(i) == IF Intn(AdvanceBy(r, i), 2) - 1 = 0 THEN -1 ELSE 1
        speed(i)     == direction(i) *
                        (Intn(AdvanceBy(r, freewayRows + i), 4) + 1)
    IN  [cars |-> [i \in 0 .. freewayRows - 1 |->
                     [x |-> 0, y |-> i + 1, timer |-> Abs(speed(i)),
                      speed |-> speed(i)]],
         rng  |-> AdvanceBy(r, 2 * freewayRows)]

\* Freeway.randomizeCars(init): freewayRows direction draws, then
\* freewayRows speed draws
randomizeCars(cars, r, init) ==
    LET direction(i) == IF Intn(AdvanceBy(r, i), 2) - 1 = 0 THEN -1 ELSE 1
        speed(i)     == direction(i) *
                        (Intn(AdvanceBy(r, freewayRows + i), 4) + 1)
    IN  [cars |-> [i \in 0 .. freewayRows - 1 |->
                     IF init
                     THEN [x |-> 0, y |-> i + 1, timer |-> Abs(speed(i)),
                           speed |-> speed(i)]
                     ELSE [cars[i] EXCEPT !.timer = Abs(speed(i)),
                                          !.speed = speed(i)]],
         rng  |-> AdvanceBy(r, 2 * freewayRows)]

\* Freeway.Reset()
FreewayReset(r) ==
    LET rc == randomizeCars(<<>>, r, TRUE)
    IN  [s |-> [cars |-> rc.cars, position |-> 9, moveTimer |-> playerSpeed,
                terminateTimer |-> timeLimit, terminal |-> FALSE],
         rng |-> rc.rng]

\* one car of the loop over the cars in Freeway.Act: the car after the
\* frame
FreewayCarStep(car) ==
    IF car.timer = 0
    THEN LET x1 == IF car.speed > 0 THEN car.x + 1 ELSE 9
             x2 == IF x1 > 9 THEN 0 ELSE x1
         IN  [car EXCEPT !.timer = Abs(car.speed), !.x = x2]
    ELSE [car EXCEPT !.timer = car.timer - 1]

\* the loop over the cars in Freeway.Act from row i on: the player's
\* position after the collision checks made before and after each car moves
RECURSIVE FreewayCollide(_, _, _)
FreewayCollide(cars, position, i) ==
    IF i >= freewayRows THEN position
    ELSE LET p1  == IF cars[i].x = 4 /\ cars[i].y = position
                    THEN 9 ELSE position
             car == FreewayCarStep(cars[i])
             p2  == IF cars[i].timer = 0 /\ car.x = 4 /\ car.y = p1
                    THEN 9 ELSE p1
         IN  FreewayCollide(cars, p2, i + 1)

\* "Update the environment with respect to the action" in Freeway.Act
FreewayMove(s, action) ==
    IF action = "u" /\ s.moveTimer = 0
    THEN [s EXCEPT !.moveTimer = playerSpeed,
                   !.position  = IF 0 > s.position - 1
                                 THEN 0 ELSE s.position - 1]
    ELSE IF action = "d" /\ s.moveTimer = 0
    THEN [s EXCEPT !.moveTimer = playerSpeed,
                   !.position  = IF 9 < s.position
                                 THEN 9 ELSE s.position + 1]
    ELSE s

\* the body of Freeway.Act for an action code that indexes the alphabet
FreewayFrame(s, r, act) ==
    LET s1  == FreewayMove(s, actionMap[act + 1])
        win == s1.position = 0
        rc  == IF win THEN randomizeCars(s1.cars, r, FALSE)
               ELSE [cars |-> s1.cars, rng |-> r]
        p1  == IF win THEN 9 ELSE s1.position
        p2  == FreewayCollide(rc.cars, p1, 0)
        cars2 == [i \in 0 .. freewayRows - 1 |-> FreewayCarStep(rc.cars[i])]
        tt  == s1.terminateTimer - 1
        s2  == [s1 EXCEPT !.cars = cars2, !.position = p2,
                   !.moveTimer = IF s1.moveTimer > 0
                                 THEN s1.moveTimer - 1 ELSE s1.moveTimer,
                   !.terminateTimer = tt,
                   !.terminal = IF tt < 0 THEN TRUE ELSE s1.terminal]
    IN  Out(s2, rc.rng, IF win THEN 1 ELSE 0, s2.terminal, "nil")

\* Freeway.Act: the terminal test comes first, only the upper end of the
\* action range is tested, and indexing the alphabet with a negative code
\* is a run-time panic
FreewayAct(s, r, act) ==
    IF s.terminal
    THEN Out(s, r, 0, s.terminal, "nil")
    ELSE IF act >= Len(actionMap)
    THEN Out(s, r, -1, FALSE, "error")
    ELSE IF act < 0
    THEN Out(s, r, 0, FALSE, "panic")
    ELSE FreewayFrame(s, r, act)

(***************************************************************************)
(* SpaceInvaders: internal/game/spaceinvaders.  A matrix (fBullets,        *)
(* eBullets, aliens) is the set of <<row, col>> cells whose element is 1.  *)
(***************************************************************************)
enemyMoveInterval == 12

enemyShotInterval == 10

shotCoolDown == 5

\* game.RollRowsUp / RollRowsDown / RollColsLeft / RollColsRight: every row
\* (column) moves by one and the one leaving the matrix wraps around
RollRowsUp(m) == {<<(c[1] + rows - 1) % rows, c[2]>> : c \in m}

RollRowsDown(m) == {<<(c[1] + 1) % rows, c[2]>> : c \in m}

RollColsLeft(m) == {<<c[1], (c[2] + cols - 1) % cols>> : c \in m}

RollColsRight(m) == {<<c[1], (c[2] + 1) % cols>> : c \in m}

\* game.CountNonZero(matrix): the loop counts the elements equal to 0.0
CountNonZero(m) == rows * cols - Cardinality(m)

\* the alien block Reset and the wave respawn place: rows 0..3, columns 2..7
AlienWave == (0 .. ((4 * rows) \div 10) - 1) \X (2 .. cols - 3)

\* the largest element of a non-empty set of integers (game.MaxInt(xs...))
MaxOf(S) == CHOOSE a \in S : \A b \in S : a >= b

\* the comparator nearestAlien passes to sort.Slice: it compares the slice
\* indices i and j themselves, not the elements stored at them
searchLess(i, j, pos) == Abs(i - pos) < Abs(j - pos)

SwapAt(seq, i, j) == [seq EXCEPT ![i + 1] = seq[j + 1], ![j + 1] = seq[i + 1]]

\* the insertion sort sort.Slice runs on a slice of at most 12 elements
RECURSIVE InsertionInner(_, _, _)
InsertionInner(seq, j, pos) ==
    IF j > 0 /\ searchLess(j, j - 1, pos)
    THEN InsertionInner(SwapAt(seq, j, j - 1), j - 1, pos)
    ELSE seq

RECURSIVE InsertionSort(_, _, _)
InsertionSort(seq, i, pos) ==
    IF i >= Len(seq) THEN seq
    ELSE InsertionSort(InsertionInner(seq, i, pos), i + 1, pos)

\* the gap-6 shell pass that the sort package of Go releases before 1.19
\* runs ahead of the insertion sort
RECURSIVE ShellPass(_, _, _)
ShellPass(seq, i, pos) ==
    IF i >= Len(seq) THEN seq
    ELSE ShellPass(IF searchLess(i, i - 6, pos)
                   THEN SwapAt(seq, i, i - 6) ELSE seq, i + 1, pos)

\* searchOrder after sort.Slice under the given sort implementation
searchOrder(pos, impl) ==
    LET identity == [i \in 1 .. rows |-> i - 1]
    IN  IF impl = "shell"
        THEN InsertionSort(ShellPass(identity, 6, pos), 1, pos)
        ELSE InsertionSort(identity, 1, pos)

\* SpaceInvaders.nearestAlien(pos): <<x, y>> with x the row and y the
\* column of the alien found, <<-1, -1>> when there is no alien
RECURSIVE nearestScan(_, _, _)
nearestScan(aliens, order, k) ==
    IF k > Len(order) THEN <<-1, -1>>
    ELSE LET i        == order[k]
             aliensAt == {c[1] : c \in {d \in aliens : d[2] = i}}
         IN  IF aliensAt # {} THEN <<MaxOf(aliensAt), i>>
             ELSE nearestScan(aliens, order, k + 1)

nearestAlien(aliens, pos, impl) ==
    nearestScan(aliens, searchOrder(pos, impl), 1)

\* currentState, the array State() caches: cached is FALSE for nil, lit are
\* the indices of the elements of the cached array that are 1
NoCache == [cached |-> FALSE, lit |-> {}]

\* SpaceInvaders.Reset(): one draw chooses the cannon's column
SpaceInvadersReset(r) ==
    [s |-> [x |-> Intn(r, rows \div 4) + rows \div 2, shotTimer |-> 0,
            fBullets |-> {}, eBullets |-> {}, aliens |-> AlienWave,
            alienDir |-> -1, enemyMoveInterval |-> enemyMoveInterval,
            alienMoveTimer |-> enemyMoveInterval,
            alienShotTimer |-> enemyShotInterval,
            rampIndex |-> 0, terminal |-> FALSE, currentState |-> NoCache],
     rng |-> Advance(r)]

\* an Act that leaves the cached observation in place
Uncached_Keep(s) == s

\* "s.currentState = nil" at the end of SpaceInvaders.Act
Uncached(s) == [s EXCEPT !.currentState = NoCache]

\* the body of SpaceInvaders.Act for a valid action in a running episode
SpaceInvadersFrame(s, r, ramp, impl, act) ==
    LET action == actionMap[act + 1]
        fire   == action = "f" /\ s.shotTimer <= 0
        x      == CASE action = "l" -> MaxInt(0, s.x - 1)
                    [] action = "r" -> MinInt(cols - 1, s.x + 1)
                    [] OTHER        -> s.x
        shot1  == IF fire THEN shotCoolDown ELSE s.shotTimer
        fB0    == IF fire THEN s.fBullets \cup {<<rows - 1, s.x>>}
                  ELSE s.fBullets
        fB1    == {c \in RollRowsUp(fB0) : c[1] # rows - 1}
        eB1    == {c \in RollRowsDown(s.eBullets) : c[1] # 0}
        t1     == s.terminal \/ <<rows - 1, x>> \in eB1
        t2     == t1 \/ <<rows - 1, x>> \in s.aliens
        moveNow == s.alienMoveTimer = 0
        edge   == (\E c \in s.aliens : c[2] = 0 /\ s.alienDir < 0) \/
                  (\E c \in s.aliens : c[2] = cols - 1 /\ s.alienDir > 0)
        mt1    == IF moveNow
                  THEN MinInt(s.enemyMoveInterval, CountNonZero(s.aliens))
                  ELSE s.alienMoveTimer
        dir1   == IF moveNow /\ edge THEN -s.alienDir ELSE s.alienDir
        al1    == IF ~moveNow THEN s.aliens
                  ELSE IF edge THEN RollRowsDown(s.aliens)
                  ELSE IF s.alienDir < 0 THEN RollColsLeft(s.aliens)
                  ELSE RollColsRight(s.aliens)
        t3     == t2 \/ (moveNow /\ edge /\
                         \E c \in s.aliens : c[1] = rows - 1)
        t4     == t3 \/ (moveNow /\ <<rows - 1, x>> \in al1)
        shootNow == s.alienShotTimer = 0
        st1    == IF shootNow THEN enemyShotInterval ELSE s.alienShotTimer
        near   == nearestAlien(al1, x, impl)
        eB2    == IF shootNow /\ near[1] > 0 /\ near[2] > 0
                  THEN eB1 \cup {near} ELSE eB1
        killed == fB1 \cap al1
        al2    == al1 \ killed
        fB2    == fB1 \ killed
        shot2  == IF shot1 > 0 THEN shot1 - 1 ELSE shot1
        cleared == CountNonZero(al2) = 0
        rampNow == cleared /\ s.enemyMoveInterval > 0 /\ ramp
        s1 == [Uncached(s) EXCEPT
                 !.x = x, !.shotTimer = shot2, !.fBullets = fB2,
                 !.eBullets = eB2,
                 !.aliens = IF cleared THEN AlienWave ELSE al2,
                 !.alienDir = dir1,
                 !.enemyMoveInterval = IF rampNow
                     THEN s.enemyMoveInterval - 1 ELSE s.enemyMoveInterval,
                 !.rampIndex = IF rampNow
                     THEN s.rampIndex + 1 ELSE s.rampIndex,
                 !.alienMoveTimer = mt1 - 1,
                 !.alienShotTimer = st1 - 1,
                 !.terminal = t4]
    IN  Out(s1, r, Cardinality(killed), t4, "nil")

\* SpaceInvaders.Act
SpaceInvadersAct(s, r, ramp, impl, act) ==
    IF act >= Len(actionMap) \/ act < 0
    THEN Out(s, r, -1, FALSE, "error")
    ELSE IF s.terminal
    THEN Out(s, r, 0, s.terminal, "nil")
    ELSE SpaceInvadersFrame(s, r, ramp, impl, act)

(***************************************************************************)
(* SeaQuest: internal/game/seaquest.  The slices fBullets, eBullets,       *)
(* eFish, eSubs and divers are sequences (Go index i is i+1 here).         *)
(***************************************************************************)
maxOxygen == 200

maxDivers == 6

seaquestInitSpawnSpeed == 20

seaquestInitMoveInterval == 5

diverSpawnSpeed == 30

diverMoveInterval == 5

\* append(xs[:i], xs[i+1:]...)
RemoveAt(xs, i) == SubSeq(xs, 1, i) \o SubSeq(xs, i + 2, Len(xs))

newBullet(x, y, right) == [x |-> x, y |-> y, dir |-> IF right THEN 1 ELSE -1]

newSwimmer(x, y, right, moveTimer) ==
    [x |-> x, y |-> y, dir |-> IF right THEN 1 ELSE -1,
     moveTimer |-> moveTimer]

newSubmarine(x, y, right, moveTimer, shotTimer) ==
    [x |-> x, y |-> y, dir |-> IF right THEN 1 ELSE -1,
     moveTimer |-> moveTimer, shotTimer |-> shotTimer]

\* bullet.move() and swimmer.move()
SwimMove(e) == [e EXCEPT !.x = e.x + e.dir]

\* the entity shares the player's cell
AtPlayer(s, e) == e.x = s.x /\ e.y = s.y

\* the Go index of the first element of xs in the cell of e, -1 if none
FirstAt(xs, e) ==
    LET hits == {k \in 1 .. Len(xs) : xs[k].x = e.x /\ xs[k].y = e.y}
    IN  IF hits = {} THEN -1
        ELSE (CHOOSE k \in hits : \A m \in hits : k <= m) - 1

\* New followed by SeaQuest.Reset(): New does not copy its ramping argument
\* into the struct, so the ramping field keeps its zero value
SeaQuestResetState ==
    [x |-> 5, y |-> 0, dir |-> -1, oxygen |-> maxOxygen, divers |-> 0,
     fBullets |-> <<>>, eBullets |-> <<>>, eFish |-> <<>>, eSubs |-> <<>>,
     diverList |-> <<>>,
     eSpawnSpeed |-> seaquestInitSpawnSpeed,
     eSpawnTimer |-> seaquestInitSpawnSpeed,
     dSpawnTimer |-> diverSpawnSpeed,
     moveSpeed |-> seaquestInitMoveInterval, rampIndex |-> 0,
     shotTimer |-> 0, atSurface |-> TRUE, terminal |-> FALSE,
     ramping |-> FALSE]

\* a spawn that does not look at the enemies already in the row
spawnEnemy_AnyRow(s, r) ==
    LET lr    == Intn(r, 2)
        isSub == Intn(Advance(r), 3) = 0
        x     == IF lr = 1 THEN 0 ELSE rows - 1
        y     == Intn(AdvanceBy(r, 2), rows - 2) + 1
        r3    == AdvanceBy(r, 3)
    IN  IF isSub
        THEN [s |-> [s EXCEPT !.eSubs = Append(s.eSubs,
                        newSubmarine(x, y, lr = 1, s.moveSpeed,
                                     enemyShotInterval))],
              rng |-> r3]
        ELSE [s |-> [s EXCEPT !.eFish = Append(s.eFish,
                        newSwimmer(x, y, lr = 1, s.moveSpeed))],
              rng |-> r3]

\* SeaQuest.spawnEnemy(): three draws (side, kind, row)
spawnEnemy(s, r) ==
    LET lr    == Intn(r, 2)
        isSub == Intn(Advance(r), 3) = 0
        x     == IF lr = 1 THEN 0 ELSE rows - 1
        y     == Intn(AdvanceBy(r, 2), rows - 2) + 1
        r3    == AdvanceBy(r, 3)
        taken == (\E k \in 1 .. Len(s.eFish) :
                     s.eFish[k].y = y /\ s.eFish[k].dir # lr) \/
                 (\E k \in 1 .. Len(s.eSubs) :
                     s.eSubs[k].y = y /\ s.eSubs[k].dir # lr)
    IN  IF taken THEN [s |-> s, rng |-> r3]
        ELSE IF isSub
        THEN [s |-> [s EXCEPT !.eSubs = Append(s.eSubs,
                        newSubmarine(x, y, lr = 1, s.moveSpeed,
                                     enemyShotInterval))],
              rng |-> r3]
        ELSE [s |-> [s EXCEPT !.eFish = Append(s.eFish,
                        newSwimmer(x, y, lr = 1, s.moveSpeed))],
              rng |-> r3]

\* SeaQuest.spawnDiver(): two draws (side, row)
spawnDiver(s, r) ==
    LET lr == Intn(r, 2)
        x  == IF lr = 1 THEN 0 ELSE rows - 1
        y  == Intn(Advance(r), rows - 2) + 1
    IN  [s |-> [s EXCEPT !.diverList = Append(s.diverList,
                    newSwimmer(x, y, lr = 1, diverMoveInterval))],
         rng |-> AdvanceBy(r, 2)]

\* The update functions take and return w = [s |-> fields, reward |-> sum].

\* SeaQuest.updateFriendlyBullet(i)
updateFriendlyBullet(w, i) ==
    LET s      == w.s
        bullet == SwimMove(s.fBullets[i + 1])
        fish   == FirstAt(s.eFish, bullet)
        sub    == FirstAt(s.eSubs, bullet)
    IN  IF bullet.x < 0 \/ bullet.y > rows - 1
        THEN [w EXCEPT !.s.fBullets = RemoveAt(s.fBullets, i)]
        ELSE IF fish >= 0
        THEN [s |-> [s EXCEPT !.fBullets[i + 1] = bullet,
                              !.eFish = RemoveAt(s.eFish, fish)],
              reward |-> w.reward + 1]
        ELSE IF sub >= 0
        THEN [s |-> [s EXCEPT !.fBullets[i + 1] = bullet,
                              !.eSubs = RemoveAt(s.eSubs, sub)],
              reward |-> w.reward + 1]
        ELSE [w EXCEPT !.s.fBullets[i + 1] = bullet]

\* SeaQuest.updateEnemyBullet(i)
updateEnemyBullet(w, i) ==
    LET s      == w.s
        before == AtPlayer(s, s.eBullets[i + 1])
        bullet == SwimMove(s.eBullets[i + 1])
        off    == bullet.x < 0 \/ bullet.y > rows - 1
    IN  [w EXCEPT
           !.s.eBullets = IF off THEN RemoveAt(s.eBullets, i)
                          ELSE [s.eBullets EXCEPT ![i + 1] = bullet],
           !.s.terminal = s.terminal \/ before \/
                          (~off /\ AtPlayer(s, bullet))]

\* an update that takes a diver aboard however many are aboard
updateDiver_NoLimit(w, i) ==
    LET s     == w.s
        diver == s.diverList[i + 1]
        room  == TRUE
        moved == SwimMove([diver EXCEPT !.moveTimer = diverMoveInterval])
    IN  IF AtPlayer(s, diver) /\ room
        THEN [w EXCEPT !.s.diverList = RemoveAt(s.diverList, i),
                       !.s.divers = s.divers + 1]
        ELSE IF diver.moveTimer = 0
        THEN IF moved.x < 0 \/ moved.x > rows - 1
             THEN [w EXCEPT !.s.diverList = RemoveAt(s.diverList, i)]
             ELSE IF AtPlayer(s, moved) /\ room
             THEN [w EXCEPT !.s.diverList = RemoveAt(s.diverList, i),
                            !.s.divers = s.divers + 1]
             ELSE [w EXCEPT !.s.diverList[i + 1] = moved]
        ELSE [w EXCEPT !.s.diverList[i + 1].moveTimer = diver.moveTimer - 1]

\* SeaQuest.updateDiver(i)
updateDiver(w, i) ==
    LET s     == w.s
        diver == s.diverList[i + 1]
        room  == s.divers < maxDivers
        moved == SwimMove([diver EXCEPT !.moveTimer = diverMoveInterval])
    IN  IF AtPlayer(s, diver) /\ room
        THEN [w EXCEPT !.s.diverList = RemoveAt(s.diverList, i),
                       !.s.divers = s.divers + 1]
        ELSE IF diver.moveTimer = 0
        THEN IF moved.x < 0 \/ moved.x > rows - 1
             THEN [w EXCEPT !.s.diverList = RemoveAt(s.diverList, i)]
             ELSE IF AtPlayer(s, moved) /\ room
             THEN [w EXCEPT !.s.diverList = RemoveAt(s.diverList, i),
                            !.s.divers = s.divers + 1]
             ELSE [w EXCEPT !.s.diverList[i + 1] = moved]
        ELSE [w EXCEPT !.s.diverList[i + 1].moveTimer = diver.moveTimer - 1]

\* SeaQuest.updateEnemyFish(i)
updateEnemyFish(w, i) ==
    LET s      == w.s
        fish   == s.eFish[i + 1]
        before == AtPlayer(s, fish)
        moved  == SwimMove([fish EXCEPT !.moveTimer = s.moveSpeed])
        bullet == FirstAt(s.fBullets, moved)
        w1     == [w EXCEPT !.s.terminal = s.terminal \/ before]
    IN  IF fish.moveTimer = 0
        THEN IF moved.x < 0 \/ moved.y > rows - 1
             THEN [w1 EXCEPT !.s.eFish = RemoveAt(s.eFish, i)]
             ELSE IF AtPlayer(s, moved)
             THEN [w1 EXCEPT !.s.eFish[i + 1] = moved, !.s.terminal = TRUE]
             ELSE IF bullet >= 0
             THEN [w1 EXCEPT !.s.eFish = RemoveAt(s.eFish, i),
                             !.s.fBullets = RemoveAt(s.fBullets, bullet),
                             !.reward = w.reward + 1]
             ELSE [w1 EXCEPT !.s.eFish[i + 1] = moved]
        ELSE [w1 EXCEPT !.s.eFish[i + 1].moveTimer = fish.moveTimer - 1]

\* SeaQuest.updateEnemySubmarine(i): the shot at the end is taken with the
\* local sub pointer, also when the submarine has just been removed
updateEnemySubmarine(w, i) ==
    LET s      == w.s
        sub    == s.eSubs[i + 1]
        before == AtPlayer(s, sub)
        can    == sub.moveTimer = 0
        sub1   == IF can THEN SwimMove([sub EXCEPT !.moveTimer = s.moveSpeed])
                  ELSE [sub EXCEPT !.moveTimer = sub.moveTimer - 1]
        off    == can /\ (sub1.x < 0 \/ sub1.x > rows - 1)
        crash  == can /\ ~off /\ AtPlayer(s, sub1)
        bullet == IF can /\ ~off /\ ~crash THEN FirstAt(s.fBullets, sub1)
                  ELSE -1
        gone   == off \/ bullet >= 0
        shoot  == sub1.shotTimer = 0
        sub2   == IF shoot THEN [sub1 EXCEPT !.shotTimer = enemyShotInterval]
                  ELSE [sub1 EXCEPT !.shotTimer = sub1.shotTimer - 1]
    IN  [s |-> [s EXCEPT
                  !.terminal = s.terminal \/ before \/ crash,
                  !.eSubs    = IF gone THEN RemoveAt(s.eSubs, i)
                               ELSE [s.eSubs EXCEPT ![i + 1] = sub2],
                  !.fBullets = IF bullet >= 0
                               THEN RemoveAt(s.fBullets, bullet)
                               ELSE s.fBullets,
                  !.eBullets = IF shoot
                               THEN Append(s.eBullets,
                                        newBullet(sub1.x, sub1.y, sub1.dir = 1))
                               ELSE s.eBullets],
         reward |-> IF bullet >= 0 THEN w.reward + 1 ELSE w.reward]

\* the loops "for i := len(xs) - 1; i > -1; i--" of SeaQuest.Act
RECURSIVE FriendlyBulletLoop(_, _)
FriendlyBulletLoop(w, i) ==
    IF i < 0 THEN w ELSE FriendlyBulletLoop(updateFriendlyBullet(w, i), i - 1)

RECURSIVE DiverLoop(_, _)
DiverLoop(w, i) ==
    IF i < 0 THEN w ELSE DiverLoop(updateDiver(w, i), i - 1)

RECURSIVE SubmarineLoop(_, _)
SubmarineLoop(w, i) ==
    IF i < 0 THEN w ELSE SubmarineLoop(updateEnemySubmarine(w, i), i - 1)

RECURSIVE EnemyBulletLoop(_, _)
EnemyBulletLoop(w, i) ==
    IF i < 0 THEN w ELSE EnemyBulletLoop(updateEnemyBullet(w, i), i - 1)

RECURSIVE FishLoop(_, _)
FishLoop(w, i) ==
    IF i < 0 THEN w ELSE FishLoop(updateEnemyFish(w, i), i - 1)

\* Go's integer division of a by b > 0: the quotient is truncated toward 0
GoDiv(a, b) == IF a >= 0 THEN a \div b ELSE -((-a) \div b)

\* surfacing that leaves the oxygen as it is when fewer than six divers are
\* aboard
surface_NoRefill(s) ==
    IF s.divers = maxDivers
    THEN [s |-> [s EXCEPT !.atSurface = TRUE, !.divers = 0],
          reward |-> GoDiv(s.oxygen * 10, maxOxygen)]
    ELSE [s |-> [s EXCEPT !.atSurface = TRUE, !.divers = s.divers - 1],
          reward |-> 0]

\* SeaQuest.surface(): the fields after surfacing and the reward
surface(s) ==
    IF s.divers = maxDivers
    THEN [s |-> [s EXCEPT !.atSurface = TRUE, !.divers = 0],
          reward |-> GoDiv(s.oxygen * 10, maxOxygen)]
    ELSE LET rampNow == s.ramping /\ (s.eSpawnSpeed > 1 \/ s.moveSpeed > 2)
         IN  [s |-> [s EXCEPT
                       !.atSurface = TRUE,
                       !.oxygen = maxOxygen,
                       !.divers = s.divers - 1,
                       !.moveSpeed = IF rampNow /\ s.moveSpeed > 2 /\
                                        s.rampIndex % 2 = 1
                                     THEN s.moveSpeed - 1 ELSE s.moveSpeed,
                       !.eSpawnSpeed = IF rampNow /\ s.eSpawnSpeed > 1
                                       THEN s.eSpawnSpeed - 1
                                       ELSE s.eSpawnSpeed,
                       !.rampIndex = IF rampNow THEN s.rampIndex + 1
                                     ELSE s.rampIndex],
              reward |-> 0]

\* "Resolve action" in SeaQuest.Act
SeaQuestAction(s, action) ==
    CASE action = "f" ->
            IF s.shotTimer = 0
            THEN [s EXCEPT !.fBullets = Append(s.fBullets,
                                            newBullet(s.x, s.y, s.dir = 1)),
                           !.shotTimer = shotCoolDown]
            ELSE s
      [] action = "l" -> [s EXCEPT !.x = MaxInt(0, s.x - 1), !.dir = -1]
      [] action = "r" -> [s EXCEPT !.x = MinInt(rows - 1, s.x + 1), !.dir = 1]
      [] action = "u" -> [s EXCEPT !.y = MaxInt(0, s.y - 1)]
      [] action = "d" -> [s EXCEPT !.y = MinInt(rows - 2, s.y + 1)]
      [] OTHER        -> s

\* the end of SeaQuest.Act: timers, oxygen and surfacing
SeaQuestTimers(w) ==
    LET s  == w.s
        s1 == [s EXCEPT
                 !.eSpawnTimer = IF s.eSpawnTimer > 0
                                 THEN s.eSpawnTimer - 1 ELSE s.eSpawnTimer,
                 !.dSpawnTimer = IF s.dSpawnTimer > 0
                                 THEN s.dSpawnTimer - 1 ELSE s.dSpawnTimer,
                 !.shotTimer   = IF s.shotTimer > 0
                                 THEN s.shotTimer - 1 ELSE s.shotTimer,
                 !.terminal    = s.terminal \/ s.oxygen < 0]
    IN  IF s1.y > 0
        THEN [w EXCEPT !.s = [s1 EXCEPT !.oxygen = s1.oxygen - 1,
                                        !.atSurface = FALSE]]
        ELSE IF ~s1.atSurface
        THEN IF s1.divers = 0
             THEN [w EXCEPT !.s = [s1 EXCEPT !.terminal = TRUE]]
             ELSE LET up == surface(s1)
                  IN  [s |-> up.s, reward |-> w.reward + up.reward]
        ELSE [w EXCEPT !.s = s1]

\* "Spawn enemy if timer is up"
SeaQuestSpawnEnemy(s, r) ==
    IF s.eSpawnTimer = 0
    THEN [spawnEnemy(s, r) EXCEPT !.s.eSpawnTimer = s.eSpawnSpeed]
    ELSE [s |-> s, rng |-> r]

\* "Spawn diver if timer is up"; e holds the fields and the generator
SeaQuestSpawnDiver(e) ==
    IF e.s.dSpawnTimer = 0
    THEN [spawnDiver(e.s, e.rng) EXCEPT !.s.dSpawnTimer = diverSpawnSpeed]
    ELSE e

\* the five update loops of SeaQuest.Act, each over the slice as it is when
\* the loop starts
updateFriendlyBullets(w) == FriendlyBulletLoop(w, Len(w.s.fBullets) - 1)

updateDivers(w) == DiverLoop(w, Len(w.s.diverList) - 1)

updateEnemySubmarines(w) == SubmarineLoop(w, Len(w.s.eSubs) - 1)

updateEnemyBullets(w) == EnemyBulletLoop(w, Len(w.s.eBullets) - 1)

updateEnemyFishes(w) == FishLoop(w, Len(w.s.eFish) - 1)

\* what Act returns at its end
SeaQuestReturn(w, r) == Out(w.s, r, w.reward, w.s.terminal, "nil")

\* Act after the two spawns; d holds the fields and the generator
SeaQuestAfterSpawn(d, act) ==
    SeaQuestReturn(
        SeaQuestTimers(
            updateEnemyFishes(
                updateEnemyBullets(
                    updateEnemySubmarines(
                        updateDivers(
                            updateFriendlyBullets(
                                [s      |-> SeaQuestAction(d.s,
                                                actionMap[act + 1]),
                                 reward |-> 0])))))),
        d.rng)

\* the body of SeaQuest.Act for a valid action in a running episode
SeaQuestFrame(s, r, act) ==
    SeaQuestAfterSpawn(SeaQuestSpawnDiver(SeaQuestSpawnEnemy(s, r)), act)

\* SeaQuest.Act
SeaQuestAct(s, r, act) ==
    IF act >= Len(actionMap) \/ act < 0
    THEN Out(s, r, -1, FALSE, "error")
    ELSE IF s.terminal
    THEN Out(s, r, 0, s.terminal, "nil")
    ELSE SeaQuestFrame(s, r, act)

(***************************************************************************)
(* The instance and its caller.                                            *)
(***************************************************************************)
Games == {"asterix", "breakout", "freeway", "seaquest", "spaceinvaders"}

\* the fields of the games that were not constructed
Idle == [terminal |-> FALSE]

\* the game.Game interface: the fields of the constructed game and the
\* result of calling its Act(a) in the current state
Fields ==
    CASE game = "asterix"       -> ast
      [] game = "breakout"      -> brk
      [] game = "freeway"       -> fw
      [] game = "seaquest"      -> sq
      [] game = "spaceinvaders" -> si

\* DifficultyRamp(): the ramp index of Asterix, SeaQuest and SpaceInvaders,
\* the constant 0 of Freeway and Breakout
DifficultyRamp ==
    IF game \in {"freeway", "breakout"} THEN 0 ELSE Fields.rampIndex

Act(a) ==
    CASE game = "asterix"       -> AsterixAct(ast, rng, ramping, a)
      [] game = "breakout"      -> BreakoutAct(brk, rng, a)
      [] game = "freeway"       -> FreewayAct(fw, rng, a)
      [] game = "seaquest"      -> SeaQuestAct(sq, rng, a)
      [] game = "spaceinvaders" ->
             SpaceInvadersAct(si, rng, ramping, sortImpl, a)

\* the action codes the caller passes in the current state: every code
\* while the episode is young, then only the no-op
Offered ==
    IF frames < Explore THEN ActionCodes ELSE {0}

\* the call advanced the game by one frame
Advanced(o, wasTerminal) == o.err = "nil" /\ ~wasTerminal

\* the caller-side bookkeeping shared by all Act actions
Returned(o, wasTerminal) ==
    /\ rng' = o.rng
    /\ ret' = Ret("act", wasTerminal, o.reward, o.terminal, o.err)
    /\ frames' = IF Advanced(o, wasTerminal) THEN frames + 1 ELSE frames
    /\ ended' = (ended \/ o.terminal)
    /\ UNCHANGED <<game, ramping, sortImpl, resets>>

\* an Act call made on the game itself: the wrapper's fields stay
Called(o, wasTerminal) == Returned(o, wasTerminal) /\ UNCHANGED env

AsterixActStep ==
    /\ game = "asterix"
    /\ ast.terminal \/ frames < AsterixFrames
    /\ \E a \in Offered :
         LET o == AsterixAct(ast, rng, ramping, a)
         IN  /\ ast' = o.s
             /\ Called(o, ast.terminal)
    /\ UNCHANGED <<brk, fw, sq, si>>

BreakoutActStep ==
    /\ game = "breakout"
    /\ brk.terminal \/ frames < BreakoutFrames
    /\ \E a \in Offered :
         LET o == BreakoutAct(brk, rng, a)
         IN  /\ brk' = o.s
             /\ Called(o, brk.terminal)
    /\ UNCHANGED <<ast, fw, sq, si>>

FreewayActStep ==
    /\ game = "freeway"
    /\ \E a \in Offered :
         LET o == FreewayAct(fw, rng, a)
         IN  /\ fw' = o.s
             /\ Called(o, fw.terminal)
    /\ UNCHANGED <<ast, brk, sq, si>>

SeaQuestActStep ==
    /\ game = "seaquest"
    /\ sq.terminal \/ frames < SeaQuestFrames
    /\ \E a \in Offered :
         LET o == SeaQuestAct(sq, rng, a)
         IN  /\ sq' = o.s
             /\ Called(o, sq.terminal)
    /\ UNCHANGED <<ast, brk, fw, si>>

SpaceInvadersActStep ==
    /\ game = "spaceinvaders"
    /\ si.terminal \/ frames < SpaceInvadersFrames
    /\ \E a \in Offered :
         LET o == SpaceInvadersAct(si, rng, ramping, sortImpl, a)
         IN  /\ si' = o.s
             /\ Called(o, si.terminal)
    /\ UNCHANGED <<ast, brk, fw, sq>>

\* the caller-side bookkeeping shared by all Reset actions
WasReset(r) ==
    /\ resets < MaxResets
    /\ rng' = r
    /\ ret' = Ret("reset", FALSE, 0, FALSE, "nil")
    /\ frames' = 0
    /\ resets' = resets + 1
    /\ ended' = FALSE
    /\ UNCHANGED <<game, ramping, sortImpl, env>>

\* a Reset that leaves the spawn timer where the episode left it
AsterixResetStep_StaleTimer ==
    /\ game = "asterix"
    /\ ast' = [AsterixResetState EXCEPT !.spawnTimer = ast.spawnTimer]
    /\ WasReset(rng)
    /\ UNCHANGED <<brk, fw, sq, si>>

AsterixResetStep ==
    /\ game = "asterix"
    /\ ast' = AsterixResetState
    /\ WasReset(rng)
    /\ UNCHANGED <<brk, fw, sq, si>>

BreakoutResetStep ==
    /\ game = "breakout"
    /\ brk' = BreakoutReset(rng).s
    /\ WasReset(BreakoutReset(rng).rng)
    /\ UNCHANGED <<ast, fw, sq, si>>

FreewayResetStep ==
    /\ game = "freeway"
    /\ fw' = FreewayReset(rng).s
    /\ WasReset(FreewayReset(rng).rng)
    /\ UNCHANGED <<ast, brk, sq, si>>

SeaQuestResetStep ==
    /\ game = "seaquest"
    /\ sq' = SeaQuestResetState
    /\ WasReset(rng)
    /\ UNCHANGED <<ast, brk, fw, si>>

SpaceInvadersResetStep ==
    /\ game = "spaceinvaders"
    /\ si' = SpaceInvadersReset(rng).s
    /\ WasReset(SpaceInvadersReset(rng).rng)
    /\ UNCHANGED <<ast, brk, fw, sq>>

\* New(ramping, seed) of the chosen game: the fields after the Reset that
\* New ends with.  breakout.New and freeway.New discard their first argument.
InitFor(g) ==
    /\ game = g
    /\ ramping \in IF g \in {"breakout", "freeway"} THEN {FALSE} ELSE BOOLEAN
    /\ sortImpl \in IF g = "spaceinvaders" THEN {"insertion", "shell"}
                    ELSE {"insertion"}
    /\ \E seed \in 0 .. NumSeeds - 1 :
         LET r0 == NewSource(seed)
         IN  /\ ast = IF g = "asterix" THEN AsterixResetState ELSE Idle
             /\ brk = IF g = "breakout" THEN BreakoutReset(r0).s ELSE Idle
             /\ fw  = IF g = "freeway" THEN FreewayReset(r0).s ELSE Idle
             /\ sq  = IF g = "seaquest" THEN SeaQuestResetState ELSE Idle
             /\ si  = IF g = "spaceinvaders"
                      THEN SpaceInvadersReset(r0).s ELSE Idle
             /\ rng = CASE g = "breakout"      -> BreakoutReset(r0).rng
                        [] g = "freeway"       -> FreewayReset(r0).rng
                        [] g = "spaceinvaders" -> SpaceInvadersReset(r0).rng
                        [] OTHER               -> r0
    /\ ret = Ret("new", FALSE, 0, FALSE, "nil")
    /\ env = [firstAction |-> TRUE, lastAction |-> -1]
    /\ frames = 0
    /\ resets = 0
    /\ ended = FALSE

Init == \E g \in Games : InitFor(g)

Next ==
    \/ AsterixActStep
    \/ AsterixResetStep
    \/ BreakoutActStep
    \/ BreakoutResetStep
    \/ FreewayActStep
    \/ FreewayResetStep
    \/ SeaQuestActStep
    \/ SeaQuestResetStep
    \/ SpaceInvadersActStep
    \/ SpaceInvadersResetStep

Spec == Init /\ [][Next]_vars

\* the first episode of every game: the caller never resets
SpecFirstEpisode ==
    Init /\ [][\/ AsterixActStep
               \/ BreakoutActStep
               \/ FreewayActStep
               \/ SeaQuestActStep
               \/ SpaceInvadersActStep]_vars

\* one specification per game
InitAsterix == InitFor("asterix")

NextAsterix == AsterixActStep \/ AsterixResetStep

SpecAsterix == InitAsterix /\ [][NextAsterix]_vars

InitBreakout == InitFor("breakout")

NextBreakout == BreakoutActStep \/ BreakoutResetStep

SpecBreakout == InitBreakout /\ [][NextBreakout]_vars

InitFreeway == InitFor("freeway")

NextFreeway == FreewayActStep \/ FreewayResetStep

SpecFreeway == InitFreeway /\ [][NextFreeway]_vars

InitSeaQuest == InitFor("seaquest")

NextSeaQuest == SeaQuestActStep \/ SeaQuestResetStep

SpecSeaQuest == InitSeaQuest /\ [][NextSeaQuest]_vars

InitSpaceInvaders == InitFor("spaceinvaders")

NextSpaceInvaders == SpaceInvadersActStep \/ SpaceInvadersResetStep

SpecSpaceInvaders == InitSpaceInvaders /\ [][NextSpaceInvaders]_vars

\* A SeaQuest caller that only dives and rises: it passes the no-op, 'up' and
\* 'down', never fires and never leaves its column, until the episode ends.
DiveCodes == {0, 2, 4}

SeaQuestDiveStep ==
    /\ game = "seaquest"
    /\ ~sq.terminal
    /\ frames < DiveFrames
    /\ \E a \in DiveCodes :
         LET o == SeaQuestAct(sq, rng, a)
         IN  /\ sq' = o.s
             /\ Called(o, sq.terminal)
    /\ UNCHANGED <<ast, brk, fw, si>>

SpecSeaQuestDive == InitSeaQuest /\ [][SeaQuestDiveStep]_vars

\* An Asterix caller who stays in the column it starts in and passes, on each
\* call, the no-op, 'up' or 'down', whichever keeps it clear of every entity:
\* only calls that return terminal=false and reward 0 are made.
AsterixDodgeStep ==
    /\ game = "asterix"
    /\ ~ast.terminal
    /\ frames < DodgeFrames
    /\ \E a \in {0, 2, 4} :
         LET o == AsterixAct(ast, rng, ramping, a)
         IN  /\ ~o.terminal
             /\ o.reward = 0
             /\ ast' = o.s
             /\ Called(o, ast.terminal)
    /\ UNCHANGED <<brk, fw, sq, si>>

SpecAsterixDodge == InitAsterix /\ [][AsterixDodgeStep]_vars

\* A Freeway caller who passes 'up' on every call of the episode
FreewayClimbStep ==
    /\ game = "freeway"
    /\ ~fw.terminal
    /\ LET o == FreewayAct(fw, rng, 2)
       IN  /\ fw' = o.s
           /\ Called(o, fw.terminal)
    /\ UNCHANGED <<ast, brk, sq, si>>

SpecFreewayClimb == InitFreeway /\ [][FreewayClimbStep]_vars

\* A SeaQuest caller that plays a fixed opening and then dives and rises
\* freely: on each call of the opening it passes 'down' or 'up' on the calls
\* listed and the no-op on every other call.
ScriptCodes(n) ==
    LET ScriptDown == {60, 63, 64, 65, 66, 93} \cup (150 .. 156) \cup {203, 204}
        ScriptUp == {81, 88, 90, 124, 138, 169, 176, 178, 179, 180, 183, 196}
        ScriptLen == 204
    IN  IF n > ScriptLen THEN DiveCodes
        ELSE IF n \in ScriptDown THEN {4}
        ELSE IF n \in ScriptUp THEN {2}
        ELSE {0}

SeaQuestScriptStep ==
    /\ game = "seaquest"
    /\ ~sq.terminal
    /\ frames < ScriptFrames
    /\ \E a \in ScriptCodes(frames + 1) :
         LET o == SeaQuestAct(sq, rng, a)
         IN  /\ sq' = o.s
             /\ Called(o, sq.terminal)
    /\ UNCHANGED <<ast, brk, fw, si>>

SpecSeaQuestScript == InitSeaQuest /\ [][SeaQuestScriptStep]_vars

\* A SpaceInvaders caller that plays a fixed opening, which shoots the whole
\* first wave, and then moves and fires freely: InvaderScript[n] is the code
\* passed on call n.
InvaderScript ==
    <<
      5, 0, 0, 0, 0, 5, 0, 0, 0, 0, 5, 0, 0, 0, 3, 5, 1, 1, 1, 1,
      5, 0, 0, 0, 1, 5, 0, 0, 0, 0, 5, 0, 0, 0, 0, 5, 1, 0, 0, 0,
      5, 0, 0, 0, 3, 5, 0, 0, 3, 3, 5, 0, 3, 3, 3, 5, 0, 0, 0, 0,
      5, 0, 0, 0, 0, 5, 1, 0, 0, 0, 5, 0, 0, 0, 0, 5, 0, 1, 0, 0,
      0, 3, 5, 0, 0, 0, 0, 5, 0, 0, 3, 3, 5, 0, 0, 3, 3, 5, 0, 0,
      1, 1, 5, 1, 1, 1, 1, 5, 0, 0, 0, 0, 5, 3, 3, 3, 3, 5, 0, 0,
      0, 0, 5, 0, 0, 0, 1, 5, 0 >>

InvaderCodes(n) ==
    IF n > Len(InvaderScript) THEN {0, 1, 3, 5} ELSE {InvaderScript[n]}

SpaceInvadersScriptStep ==
    /\ game = "spaceinvaders"
    /\ ~si.terminal
    /\ frames < InvaderFrames
    /\ \E a \in InvaderCodes(frames + 1) :
         LET o == SpaceInvadersAct(si, rng, ramping, sortImpl, a)
         IN  /\ si' = o.s
             /\ Called(o, si.terminal)
    /\ UNCHANGED <<ast, brk, fw, sq>>

SpecSpaceInvadersScript == InitSpaceInvaders /\ [][SpaceInvadersScriptStep]_vars

(***************************************************************************)
(* The Environment wrapper.  It embeds the game, so Reset() and State()    *)
(* are the game's own methods and leave the wrapper's fields alone.        *)
(***************************************************************************)
\* Environment.Act(a) up to the call of the game: the wrapper's fields
\* after it and the action handed to the game.  stick is the outcome of
\* e.rng.Float64() < e.stickyActionsProb, which is TRUE on every call when
\* the probability is 1 and FALSE on every call when it is 0.
EnvironmentAct(e, a, stick) ==
    LET passed == IF ~e.firstAction /\ stick THEN e.lastAction ELSE a
    IN  [e |-> [firstAction |-> FALSE, lastAction |-> passed], a |-> passed]

\* the caller plays Breakout through the wrapper
EnvironmentActStep ==
    /\ game = "breakout"
    /\ brk.terminal \/ frames < BreakoutFrames
    /\ \E a \in Offered, stick \in BOOLEAN :
         LET o == BreakoutAct(brk, rng, EnvironmentAct(env, a, stick).a)
         IN  /\ brk' = o.s
             /\ env' = EnvironmentAct(env, a, stick).e
             /\ Returned(o, brk.terminal)
    /\ UNCHANGED <<ast, fw, sq, si>>

SpecEnvironment ==
    InitBreakout /\ [][EnvironmentActStep \/ BreakoutResetStep]_vars

(***************************************************************************)
(* Observations: State(), Channel(i), NChannels(), StateShape().  State()  *)
(* is a flat array of NChannels * R * C elements, channel after channel,   *)
(* each channel row by row.                                                *)
(***************************************************************************)
\* len(channels) of the game's New
NChannels(g) ==
    CASE g = "asterix"       -> 4
      [] g = "breakout"      -> 4
      [] g = "freeway"       -> 7
      [] g = "seaquest"      -> 10
      [] g = "spaceinvaders" -> 6

\* the grid <<R, C>> StateShape() reports next to the number of channels;
\* package freeway reports observationRows = observationCols = rows + 2
StateShape(g) ==
    IF g = "freeway" THEN <<freewayRows + 2, freewayRows + 2>>
    ELSE <<rows, cols>>

\* Channel(i): the error, or the slice state[lo:hi] of State() it returns.
\* The bounds are rows*cols*i and rows*cols*(i+1) with the rows and cols
\* constants of the game's package: 8 and 4 in package freeway, 10 and 10
\* in the others.
Channel(g, i) ==
    LET cells == IF g = "freeway" THEN freewayRows * 4 ELSE rows * cols
    IN  IF i >= NChannels(g) \/ i < 0
        THEN [err |-> "error", lo |-> 0, hi |-> 0]
        ELSE [err |-> "nil", lo |-> cells * i, hi |-> cells * (i + 1)]

\* Asterix.State(): the indices of the elements of the array that are 1.
\* The player's index is rows*cols + channels["player"] + y*cols + x; an
\* entity is in the enemy channel (1) or the gold channel (3) and its trail
\* in channel 2, on the column behind it when that column is on the grid.
AsterixState(s) ==
    LET live == {i \in 0 .. maxEntities - 1 : s.entities[i].live}
        ch(e) == IF e.gold THEN 3 ELSE 1
        backX(e) == IF e.dir = 1 THEN e.x - 1 ELSE e.x + 1
    IN  {rows * cols + 0 + s.y * cols + s.x}
        \cup {rows * cols * ch(s.entities[i]) + s.entities[i].y * cols +
              s.entities[i].x : i \in live}
        \cup {rows * cols * 2 + s.entities[i].y * cols +
              backX(s.entities[i]) :
                  i \in {j \in live : backX(s.entities[j]) >= 0 /\
                                      backX(s.entities[j]) <= cols - 1}}

\* the array SpaceInvaders.State() computes from the fields: the cannon in
\* channel 0 on the bottom row, the aliens in channel 1 and again in channel
\* 2 (moving left) or 3 (moving right), the bullets in channels 4 and 5
SpaceInvadersEncode(s) ==
    LET at(c, m) == {rows * cols * c + d[1] * cols + d[2] : d \in m}
    IN  {(rows - 1) * cols + s.x}
        \cup at(1, s.aliens)
        \cup at(IF s.alienDir < 0 THEN 2 ELSE 3, s.aliens)
        \cup at(4, s.fBullets)
        \cup at(5, s.eBullets)

\* SpaceInvaders.State(): the cached array when there is one, otherwise the
\* array computed from the fields, which is cached
SpaceInvadersState(s) ==
    IF s.currentState.cached
    THEN [s |-> s, state |-> s.currentState.lit]
    ELSE [s |-> [s EXCEPT !.currentState =
                     [cached |-> TRUE, lit |-> SpaceInvadersEncode(s)]],
          state |-> SpaceInvadersEncode(s)]

\* the caller asks for the observation
SpaceInvadersStateStep ==
    /\ game = "spaceinvaders"
    /\ si' = SpaceInvadersState(si).s
    /\ ret' = Ret("state", si.terminal, 0, si.terminal, "nil")
    /\ UNCHANGED <<game, ramping, sortImpl, rng, ast, brk, fw, sq, frames,
                   resets, ended, env>>

SpecSpaceInvadersState ==
    InitSpaceInvaders /\
    [][SpaceInvadersActStep \/ SpaceInvadersResetStep \/
       SpaceInvadersStateStep]_vars

\* MinimalActionSet(): the index in actionMap of each rune the game lists
\* (SeaQuest lists every index)
MinimalActionSet_NoDown(g) ==
    LET runes == CASE g = "asterix" -> {"n", "l", "u", "r", "d"}
                   [] g = "spaceinvaders" -> {"n", "l", "r", "f"}
                   [] g = "freeway" -> {"n", "u"}
                   [] g = "breakout" -> {"n", "l", "r"}
                   [] OTHER -> {actionMap[j] : j \in 1 .. NumActions}
    IN  {j - 1 : j \in {k \in 1 .. NumActions : actionMap[k] \in runes}}

MinimalActionSet(g) ==
    LET runes == CASE g = "asterix" -> {"n", "l", "u", "r", "d"}
                   [] g = "spaceinvaders" -> {"n", "l", "r", "f"}
                   [] g = "freeway" -> {"n", "u", "d"}
                   [] g = "breakout" -> {"n", "l", "r"}
                   [] OTHER -> {actionMap[j] : j \in 1 .. NumActions}
    IN  {j - 1 : j \in {k \in 1 .. NumActions : actionMap[k] \in runes}}

(***************************************************************************)
(* Terminal absorption and action validation                               *)
(***************************************************************************)
ValidCodes == 0 .. NumActions - 1

InvalidCodes == {-1, NumActions}

\* C1: in each of the five games, once an Act call has returned
\* terminal=true, an Act call with any action code in 0..5 returns reward 0,
\* terminal=true and no error, and leaves every field of the game (and the
\* generator) as it was.
C1_TerminalAbsorption ==
    ended =>
        \A a \in ValidCodes :
            /\ Act(a).reward = 0
            /\ Act(a).terminal
            /\ Act(a).err = "nil"
            /\ Act(a).s = Fields
            /\ Act(a).rng = rng

\* an Act call was made after the episode of a Freeway game had ended, and
\* it was absorbed
C1_Witness ==
    /\ game = "freeway"
    /\ ended
    /\ ret.op = "act" /\ ret.pre
    /\ ret.reward = 0 /\ ret.terminal /\ ret.err = "nil"

\* the same in each of the other games
C1_WitnessAsterix ==
    game = "asterix" /\ ended /\ ret.op = "act" /\ ret.pre /\ ret.err = "nil"

C1_WitnessBreakout ==
    game = "breakout" /\ ended /\ ret.op = "act" /\ ret.pre /\ ret.err = "nil"

C1_WitnessSeaQuest ==
    game = "seaquest" /\ ended /\ ret.op = "act" /\ ret.pre /\ ret.err = "nil"

C1_WitnessSpaceInvaders ==
    /\ game = "spaceinvaders"
    /\ ended /\ ret.op = "act" /\ ret.pre /\ ret.err = "nil"

\* C2: in every game and every reachable state, Act(-1) and Act(6) each
\* return the reward -1 with a non-nil error and leave every field of the
\* game unchanged.
C2_InvalidActionRejected ==
    \A a \in InvalidCodes :
        /\ Act(a).reward = -1
        /\ Act(a).err = "error"
        /\ Act(a).s = Fields

\* C3: when Act rejects an out-of-range action code, the terminal flag it
\* returns is the game's current terminal flag.
C3_RejectKeepsTerminal ==
    \A a \in InvalidCodes :
        Act(a).err = "error" => Act(a).terminal = Fields.terminal

(***************************************************************************)
(* Episode length and grid bounds                                          *)
(***************************************************************************)
\* C5: in Freeway, for any sequence of valid actions after a reset, Act
\* returns terminal=false on calls 1 through 2499 and terminal=true on call
\* 2500.
C5_FreewayEndsOnCall2500 ==
    (game = "freeway" /\ ret.op = "act" /\ ret.err = "nil" /\ ~ret.pre) =>
        /\ frames < timeLimit => ~ret.terminal
        /\ frames = timeLimit => ret.terminal

\* C6: in Breakout the paddle column stays within 0..9; the 'left' action
\* (code 1) moves the paddle exactly one column left and the 'right' action
\* (code 3) exactly one column right, each saturating at the grid edge.
C6_PaddleInGrid ==
    game = "breakout" =>
        /\ brk.position \in 0 .. cols - 1
        /\ ~brk.terminal =>
             /\ Act(1).s.position = MaxInt(0, brk.position - 1)
             /\ Act(3).s.position = MinInt(cols - 1, brk.position + 1)

\* C7: in Freeway the player's row stays within 0..9; 'up' and 'down' change
\* it by at most one row and saturate at the top and bottom rows.
C7_FreewayRowInGrid ==
    game = "freeway" =>
        /\ fw.position \in 0 .. 9
        /\ FreewayMove(fw, "u").position \in
               {fw.position, MaxInt(0, fw.position - 1)}
        /\ FreewayMove(fw, "d").position \in
               {fw.position, MinInt(9, fw.position + 1)}

\* column and row of an entity are on the 10 x 10 grid
OnGrid(e) == e.x \in 0 .. cols - 1 /\ e.y \in 0 .. rows - 1

AllOnGrid(xs) == \A k \in 1 .. Len(xs) : OnGrid(xs[k])

\* C8: in SeaQuest, after every Act every entity still held in a collection
\* (friendly bullets, enemy bullets, fish, submarines, divers) has its column
\* in 0..9 and its row in 0..9.
C8_SeaQuestEntitiesInGrid ==
    game = "seaquest" =>
        /\ AllOnGrid(sq.fBullets)
        /\ AllOnGrid(sq.eBullets)
        /\ AllOnGrid(sq.eFish)
        /\ AllOnGrid(sq.eSubs)
        /\ AllOnGrid(sq.diverList)

\* C9: in Asterix, after every Act the player's column is in 0..9 and its
\* row is in 1..8, and every live entity has its column in 0..9 (an entity
\* that moved past a side edge is no longer live).
C9_AsterixInGrid ==
    game = "asterix" =>
        /\ ast.x \in 0 .. cols - 1
        /\ ast.y \in 1 .. rows - 2
        /\ \A i \in 0 .. maxEntities - 1 :
               ast.entities[i].live => ast.entities[i].x \in 0 .. cols - 1

\* a live entity stands on a side column facing outwards in a frame in which
\* the entities move, and the Act call made in this state empties its slot
C9_Witness ==
    /\ game = "asterix"
    /\ ret.op = "act"
    /\ ~ast.terminal
    /\ frames < AsterixFrames
    /\ \E i \in 0 .. maxEntities - 1 :
         /\ ast.entities[i].live
         /\ ast.entities[i].x + ast.entities[i].dir \notin 0 .. cols - 1
         /\ ~Act(0).s.entities[i].live
         /\ ~Act(0).s.terminal

\* C10: in every reachable state of every game every timer counter is >= 0.
C10_TimersNonNegative ==
    /\ game = "asterix" =>
         ast.spawnTimer >= 0 /\ ast.moveTimer >= 0 /\ ast.rampTimer >= 0
    /\ game = "freeway" =>
         /\ fw.moveTimer >= 0
         /\ fw.terminateTimer >= 0
         /\ \A i \in 0 .. freewayRows - 1 : fw.cars[i].timer >= 0
    /\ game = "spaceinvaders" =>
         si.alienMoveTimer >= 0 /\ si.alienShotTimer >= 0 /\ si.shotTimer >= 0
    /\ game = "seaquest" =>
         /\ sq.eSpawnTimer >= 0 /\ sq.dSpawnTimer >= 0 /\ sq.shotTimer >= 0
         /\ \A k \in 1 .. Len(sq.eFish) : sq.eFish[k].moveTimer >= 0
         /\ \A k \in 1 .. Len(sq.diverList) : sq.diverList[k].moveTimer >= 0
         /\ \A k \in 1 .. Len(sq.eSubs) :
                sq.eSubs[k].moveTimer >= 0 /\ sq.eSubs[k].shotTimer >= 0

\* C11: in SeaQuest the remaining oxygen is never negative, and a state in
\* which the oxygen has reached 0 is terminal (the call that brought it to 0
\* returned terminal = TRUE).
C11_OxygenNeverNegative ==
    game = "seaquest" =>
        /\ sq.oxygen >= 0
        /\ sq.oxygen = 0 => sq.terminal

\* The player is one row below the surface, not yet surfaced, with d divers
\* aboard, and the call of 'up' brings it to the surface row.
Surfacing(d) ==
    /\ game = "seaquest"
    /\ ~sq.terminal
    /\ ~sq.atSurface
    /\ sq.y = 1
    /\ sq.divers = d
    /\ Act(2).s.y = 0

\* C12: in a SeaQuest game constructed with difficulty ramping enabled, each
\* surfacing with 1 to 5 divers aboard, while the enemy spawn interval is
\* above 1 or the move interval is above 2, increases DifficultyRamp() by one
\* and shortens the enemy spawn interval by one.
C12_SurfacingRamps ==
    \A d \in 1 .. maxDivers - 1 :
        (/\ Surfacing(d)
         /\ ramping
         /\ (sq.eSpawnSpeed > 1 \/ sq.moveSpeed > 2)) =>
            /\ Act(2).s.rampIndex = sq.rampIndex + 1
            /\ Act(2).s.eSpawnSpeed = sq.eSpawnSpeed - 1

\* C13: in SeaQuest, when the player arrives at row 0 after having been below
\* the surface, with zero divers aboard the call returns terminal = TRUE, and
\* with 1 to 5 divers aboard the oxygen is set to the maximum (200) and the
\* diver count decreases by exactly one.
C13_Surfacing ==
    /\ Surfacing(0) => Act(2).terminal
    /\ \A d \in 1 .. maxDivers - 1 :
           Surfacing(d) =>
               /\ Act(2).s.oxygen = maxOxygen
               /\ Act(2).s.divers = d - 1

\* a player that has used some oxygen surfaces with a diver aboard
C13_Witness ==
    /\ \E d \in 1 .. maxDivers - 1 : Surfacing(d)
    /\ sq.oxygen < maxOxygen
    /\ Act(2).s.oxygen = maxOxygen
    /\ ~Act(2).terminal

\* a player surfaces with no diver aboard
C13_WitnessNoDiver == Surfacing(0) /\ Act(2).terminal

\* SeaQuest.State(): the columns of the bottom row that are lit in the oxygen
\* gauge channel
oxygenGauge(s) == {i \in 0 .. cols - 1 : i < GoDiv(s.oxygen * 10, maxOxygen)}

\* C14: in SeaQuest, surfacing with exactly 6 divers aboard adds to the step's
\* reward floor(oxygen*10/200), which equals the number of lit cells of the
\* oxygen gauge channel in State(), sets the diver count to 0, and changes
\* neither the oxygen level nor DifficultyRamp().  No friendly bullet is in
\* flight, so the step earns nothing else.
C14_SixDiversReward ==
    (Surfacing(maxDivers) /\ sq.fBullets = <<>>) =>
        /\ Act(2).reward = (sq.oxygen * 10) \div maxOxygen
        /\ Act(2).reward = Cardinality(oxygenGauge(Act(2).s))
        /\ Act(2).s.divers = 0
        /\ Act(2).s.oxygen = sq.oxygen
        /\ Act(2).s.rampIndex = sq.rampIndex

\* the same with the oxygen not yet below zero
C14_SixDiversRewardFromZero ==
    (Surfacing(maxDivers) /\ sq.fBullets = <<>> /\ sq.oxygen >= 0) =>
        /\ Act(2).reward = (sq.oxygen * 10) \div maxOxygen
        /\ Act(2).reward = Cardinality(oxygenGauge(Act(2).s))
        /\ Act(2).s.divers = 0
        /\ Act(2).s.oxygen = sq.oxygen
        /\ Act(2).s.rampIndex = sq.rampIndex

\* C15: in SpaceInvaders, each time the alien move timer fires it is reloaded
\* with min(configured move interval, number of live aliens); the call then
\* counts the reloaded timer down by one.
C15_MoveTimerReload ==
    (/\ game = "spaceinvaders"
     /\ ~si.terminal
     /\ si.aliens # {}
     /\ si.alienMoveTimer = 0) =>
        Act(0).s.alienMoveTimer =
            MinInt(si.enemyMoveInterval, Cardinality(si.aliens)) - 1

\* C16: in SpaceInvaders, in the Act call in which the last live alien is
\* destroyed (the call's reward is the number of aliens that were alive), a
\* full new wave (rows 0..3, columns 2..7) is placed before the call returns,
\* and with ramping enabled the configured alien move interval decreases by
\* one and DifficultyRamp() increases by one.
C16_NewWaveOnClear ==
    \A a \in ValidCodes :
        (/\ game = "spaceinvaders"
         /\ ~si.terminal
         /\ si.aliens # {}
         /\ Act(a).reward = Cardinality(si.aliens)) =>
            /\ Act(a).s.aliens = (0 .. 3) \X (2 .. 7)
            /\ (ramping /\ si.enemyMoveInterval > 0) =>
                   /\ Act(a).s.enemyMoveInterval = si.enemyMoveInterval - 1
                   /\ Act(a).s.rampIndex = si.rampIndex + 1

\* the enemy bullets a call of Act with code a creates: those in flight after
\* the call that are not bullets of the state moved down one row
CreatedBullets(a) ==
    Act(a).s.eBullets \ {c \in RollRowsDown(si.eBullets) : c[1] # 0}

\* C17: in SpaceInvaders, on every Act call in which the alien shot timer is 0
\* and at least one alien is alive, exactly one new enemy bullet is created,
\* at the cell of an alien (one still there after the call or one shot in the
\* call); on every other Act call no enemy bullet is created.
C17_OneBulletPerShot ==
    \A a \in ValidCodes :
        (game = "spaceinvaders" /\ ~si.terminal) =>
            IF si.alienShotTimer = 0 /\ si.aliens # {}
            THEN /\ Cardinality(CreatedBullets(a)) = 1
                 /\ \A c \in CreatedBullets(a) :
                        c \in Act(a).s.aliens \/ Act(a).reward > 0
            ELSE CreatedBullets(a) = {}

\* the columns of the alien matrix m that hold an alien
AlienColumns(m) == {c[2] : c \in m}

\* C18: in SpaceInvaders, the alien chosen to fire is in the alien-occupied
\* column whose distance |column - player column| is the smallest among all
\* alien-occupied columns, and within that column it is the lowest alien
\* (largest row index).  The bullet a call creates marks the alien that
\* fired; the calls looked at shoot no alien, so the aliens after the call
\* are those that were there when the bullet was created.
C18_NearestAlienFires ==
    \A a \in ValidCodes :
        (/\ game = "spaceinvaders"
         /\ ~si.terminal
         /\ si.alienShotTimer = 0
         /\ Act(a).reward = 0) =>
            \A b \in CreatedBullets(a) :
                /\ b \in Act(a).s.aliens
                /\ \A c \in AlienColumns(Act(a).s.aliens) :
                       Abs(b[2] - Act(a).s.x) <= Abs(c - Act(a).s.x)
                /\ \A d \in Act(a).s.aliens : d[2] = b[2] => d[1] <= b[1]

\* the ball is one row above the bottom row and moving down: the next call
\* is a ball-bottom event
BallBottom ==
    /\ game = "breakout"
    /\ ~brk.terminal
    /\ brk.ballY = cols - 2
    /\ brk.ballDir \in {2, 3}

\* C19: in Breakout, the brick field is refilled in full exactly when the ball
\* arrives at the bottom row while no brick remains; a ball-bottom event while
\* at least one brick remains leaves the brick field unchanged, and no other
\* call adds a brick.
C19_RefillWhenCleared ==
    \A a \in ValidCodes :
        (game = "breakout" /\ ~brk.terminal) =>
            IF BallBottom
            THEN Act(a).s.brickMap =
                     IF brk.brickMap = {} THEN FullBricks ELSE brk.brickMap
            ELSE Act(a).s.brickMap \subseteq brk.brickMap

\* C20: in Breakout, immediately after New or Reset the brick field consists
\* of exactly 3 full rows of bricks (30 bricks).
C20_ThreeBrickRows ==
    (game = "breakout" /\ ret.op \in {"new", "reset"}) =>
        /\ Cardinality(brk.brickMap) = 3 * cols
        /\ \E top \in SUBSET (0 .. rows - 1) :
               /\ Cardinality(top) = 3
               /\ brk.brickMap = top \X (0 .. cols - 1)

\* C21: in Freeway, each time a car's countdown expires the car moves exactly
\* one column in its own direction (right-moving +1, left-moving -1), a car
\* that steps past column 9 or column 0 reappears at the opposite edge of the
\* same row, a car whose countdown has not expired keeps its column, and car
\* columns always stay in 0..9.  The call looked at is one in which the cars
\* are not re-randomized (no crossing is completed).
C21_CarsStepAndWrap ==
    (game = "freeway" /\ ~fw.terminal /\ Act(0).reward = 0) =>
        \A i \in 0 .. freewayRows - 1 :
            /\ fw.cars[i].x \in 0 .. 9
            /\ Act(0).s.cars[i].y = fw.cars[i].y
            /\ Act(0).s.cars[i].x =
                 IF fw.cars[i].timer # 0 THEN fw.cars[i].x
                 ELSE IF fw.cars[i].speed > 0 THEN (fw.cars[i].x + 1) % 10
                 ELSE (fw.cars[i].x + 9) % 10

\* C22: in Asterix with ramping enabled, while the spawn interval or the move
\* interval is still above 1, DifficultyRamp() increases by one exactly once
\* every rampInterval = 100 Act calls, the first increase happening on the
\* 100th call after Reset: after n calls of an episode it is n div 100.
C22_RampEvery100Calls ==
    (/\ game = "asterix"
     /\ ramping
     /\ (ast.spawnSpeed > 1 \/ ast.moveSpeed > 1)) =>
        ast.rampIndex = frames \div rampInterval

\* C23: in every game, for each i with 0 <= i < NChannels(), Channel(i)
\* returns exactly the R*C elements State()[i*R*C .. (i+1)*R*C) of channel i,
\* where R x C is the observation grid reported by StateShape() (10 x 10);
\* for any i outside that range it returns an error.
C23_ChannelIsSliceOfState ==
    \A i \in -1 .. NChannels(game) + 1 :
        LET cells == StateShape(game)[1] * StateShape(game)[2]
        IN  /\ cells = 100
            /\ IF i \in 0 .. NChannels(game) - 1
               THEN /\ Channel(game, i).err = "nil"
                    /\ Channel(game, i).lo = i * cells
                    /\ Channel(game, i).hi = (i + 1) * cells
               ELSE Channel(game, i).err = "error"

\* the same for the four games other than Freeway
C23_ChannelIsSliceOfStateElsewhere ==
    game # "freeway" =>
        \A i \in -1 .. NChannels(game) + 1 :
            IF i \in 0 .. NChannels(game) - 1
            THEN /\ Channel(game, i).err = "nil"
                 /\ Channel(game, i).lo = i * 100
                 /\ Channel(game, i).hi = (i + 1) * 100
            ELSE Channel(game, i).err = "error"

\* the cells <<row, column>> of channel c that are 1 in the array with the
\* lit indices lit
ChannelCells(lit, c) ==
    {<<(k - 100 * c) \div 10, (k - 100 * c) % 10>> :
         k \in {j \in lit : j >= 100 * c /\ j < 100 * (c + 1)}}

\* C24: in Asterix, State() has a 1 in channel 0 exactly at the player's cell
\* (row y, column x) and nowhere else in channel 0, and the enemy channel (1)
\* and the gold channel (3) have a 1 exactly at the cells of the live
\* non-gold entities and the live gold entities respectively.
C24_AsterixChannels ==
    game = "asterix" =>
        /\ ChannelCells(AsterixState(ast), 0) = {<<ast.y, ast.x>>}
        /\ ChannelCells(AsterixState(ast), 1) =
               {<<ast.entities[i].y, ast.entities[i].x>> :
                    i \in {j \in 0 .. maxEntities - 1 :
                              ast.entities[j].live /\ ~ast.entities[j].gold}}
        /\ ChannelCells(AsterixState(ast), 3) =
               {<<ast.entities[i].y, ast.entities[i].x>> :
                    i \in {j \in 0 .. maxEntities - 1 :
                              ast.entities[j].live /\ ast.entities[j].gold}}

\* the gold channel alone
C24_AsterixGoldChannel ==
    game = "asterix" =>
        ChannelCells(AsterixState(ast), 3) =
            {<<ast.entities[i].y, ast.entities[i].x>> :
                 i \in {j \in 0 .. maxEntities - 1 :
                           ast.entities[j].live /\ ast.entities[j].gold}}

\* C25: calling State() twice with no Act or Reset in between returns equal
\* arrays, and for SpaceInvaders, whose State() caches its result, the array
\* returned after any sequence of Act, Reset and State calls equals the
\* encoding computed fresh from the current player, alien and bullet state.
C25_StateCacheFresh ==
    game = "spaceinvaders" =>
        /\ SpaceInvadersState(si).state = SpaceInvadersEncode(si)
        /\ SpaceInvadersState(SpaceInvadersState(si).s).state =
               SpaceInvadersState(si).state

\* an observation is cached after the aliens have moved and fired
C25_Witness ==
    /\ game = "spaceinvaders"
    /\ ret.op = "state"
    /\ si.currentState.cached
    /\ si.aliens # AlienWave
    /\ si.eBullets # {}

\* C26: the environment wrapper passes the caller's action to the game
\* unchanged on the first Act call of every episode (the first call after
\* construction and the first call after each Reset); only on later calls of
\* an episode may it replace the action by the action it passed on the
\* previous call.
C26_FirstActionNotSticky ==
    \A a \in ValidCodes, stick \in BOOLEAN :
        /\ ret.op \in {"new", "reset"} =>
               EnvironmentAct(env, a, stick).a = a
        /\ EnvironmentAct(env, a, stick).a \in {a, env.lastAction}

\* the same for the first call after construction only
C26_FirstActionAfterNew ==
    \A a \in ValidCodes, stick \in BOOLEAN :
        /\ ret.op = "new" => EnvironmentAct(env, a, stick).a = a
        /\ EnvironmentAct(env, a, stick).a \in {a, env.lastAction}

\* C27: in every game, every action index in 0..5 that is not in
\* MinimalActionSet() behaves exactly like the no-op action 0: applied to the
\* same state, both produce the same reward, the same terminal flag and the
\* same next state.
C27_UnlistedActionsAreNoOps ==
    \A a \in (0 .. NumActions - 1) \ MinimalActionSet(game) : Act(a) = Act(0)

\* an Act call has returned in a running Freeway game where moving up changes
\* the outcome and the three unlisted actions do not
C27_Witness ==
    /\ game = "freeway"
    /\ ret.op = "act"
    /\ ~fw.terminal
    /\ MinimalActionSet(game) = {0, 2, 4}
    /\ Act(2) # Act(0)
    /\ \A a \in {1, 3, 5} : Act(a) = Act(0)

\* C28: DifficultyRamp() never decreases from one Act call to the next within
\* an episode (only Reset returns it to 0); it is always 0 in Freeway and
\* Breakout, and always 0 in any game constructed with ramping disabled.
C28_RampMonotone ==
    /\ [](game \in {"freeway", "breakout"} \/ ~ramping => DifficultyRamp = 0)
    /\ [][/\ ret'.op = "act" => DifficultyRamp' >= DifficultyRamp
          /\ ret'.op = "reset" => DifficultyRamp' = 0]_vars

\* an Act call has returned in an Asterix episode whose ramp index has risen
C28_Witness ==
    /\ game = "asterix"
    /\ ramping
    /\ ret.op = "act"
    /\ DifficultyRamp >= 1

\* the slots of a.entities that hold an entity
LiveSlots(s) == {i \in 0 .. maxEntities - 1 : s.entities[i].live}

\* the fields with every empty slot taken by an entity entering its row
Crowded(s) ==
    [s EXCEPT !.entities = [i \in 0 .. maxEntities - 1 |->
        IF s.entities[i].live THEN s.entities[i]
        ELSE newEntity(0, i + 1, TRUE, FALSE)]]

\* the spawn that led from fields s to fields w kept every entity of s and
\* added one entity unless all slots were taken
SpawnedInto(s, w) ==
    /\ \A i \in LiveSlots(s) : w.entities[i] = s.entities[i]
    /\ Cardinality(LiveSlots(w)) =
           IF Cardinality(LiveSlots(s)) = 8 THEN 8
           ELSE Cardinality(LiveSlots(s)) + 1

\* C29: in Asterix, the number of live entities never exceeds 8: a spawn only
\* fills a slot that is currently empty (never overwriting a live entity) and
\* is skipped when no slot is empty, and the entity in slot i always sits in
\* row i+1, so no row ever holds two entities.
C29_EntitySlots ==
    game = "asterix" =>
        /\ Cardinality(LiveSlots(ast)) <= 8
        /\ \A i \in LiveSlots(ast) : ast.entities[i].y = i + 1
        /\ SpawnedInto(ast, spawnEntity(ast, rng).s)
        /\ spawnEntity(Crowded(ast), rng).s = Crowded(ast)

\* the spawn timer of a running game is up while three entities are on the
\* board, and the spawn of the next Act call fills a fourth slot
C29_Witness ==
    /\ game = "asterix"
    /\ ret.op = "act"
    /\ ~ast.terminal
    /\ ast.spawnTimer <= 0
    /\ Cardinality(LiveSlots(ast)) = 3
    /\ Cardinality(LiveSlots(Act(0).s)) = 4

\* the starting configuration of the current game, with the fields that
\* Reset draws from the generator left to range over the values of the draw
StartingConfiguration ==
    CASE game = "asterix" ->
             /\ ~ast.terminal /\ ast.rampIndex = 0
             /\ ast.x = rows \div 2 /\ ast.y = cols \div 2
             /\ ast.moveTimer = initMoveInterval
             /\ ast.moveSpeed = initMoveInterval
             /\ ast.spawnSpeed = initSpawnSpeed
             /\ ast.spawnTimer = initSpawnSpeed
             /\ ast.rampTimer = rampInterval
             /\ \A i \in 0 .. maxEntities - 1 : ~ast.entities[i].live
      [] game = "breakout" ->
             /\ ~brk.terminal /\ ~brk.strike
             /\ brk.ballY = 3 /\ brk.position = 4
             /\ brk.ballStart \in {0, 1}
             /\ brk.ballX = IF brk.ballStart = 0 THEN 0 ELSE 9
             /\ brk.ballDir = IF brk.ballStart = 0 THEN 2 ELSE 3
             /\ brk.lastX = brk.ballX /\ brk.lastY = 3
             /\ brk.brickMap = FullBricks
      [] game = "freeway" ->
             /\ ~fw.terminal
             /\ fw.position = 9
             /\ fw.moveTimer = playerSpeed
             /\ fw.terminateTimer = timeLimit
             /\ \A i \in 0 .. freewayRows - 1 :
                    /\ fw.cars[i].x = 0 /\ fw.cars[i].y = i + 1
                    /\ fw.cars[i].speed \in (-4 .. -1) \cup (1 .. 4)
                    /\ fw.cars[i].timer = Abs(fw.cars[i].speed)
      [] game = "seaquest" ->
             /\ ~sq.terminal /\ sq.rampIndex = 0
             /\ sq.x = 5 /\ sq.y = 0 /\ sq.atSurface
             /\ sq.oxygen = maxOxygen /\ sq.divers = 0
             /\ sq.shotTimer = 0
             /\ sq.moveSpeed = seaquestInitMoveInterval
             /\ sq.eSpawnSpeed = seaquestInitSpawnSpeed
             /\ sq.eSpawnTimer = seaquestInitSpawnSpeed
             /\ sq.dSpawnTimer = diverSpawnSpeed
             /\ sq.fBullets = <<>> /\ sq.eBullets = <<>>
             /\ sq.eFish = <<>> /\ sq.eSubs = <<>> /\ sq.diverList = <<>>
      [] game = "spaceinvaders" ->
             /\ ~si.terminal /\ si.rampIndex = 0
             /\ si.x \in rows \div 2 .. rows \div 2 + rows \div 4 - 1
             /\ si.shotTimer = 0
             /\ si.fBullets = {} /\ si.eBullets = {}
             /\ si.aliens = AlienWave
             /\ si.alienDir = -1
             /\ si.enemyMoveInterval = enemyMoveInterval
             /\ si.alienMoveTimer = enemyMoveInterval
             /\ si.alienShotTimer = enemyShotInterval
             /\ ~si.currentState.cached

\* C30: after any sequence of operations, Reset() leaves the game in its
\* starting configuration: terminal=false, DifficultyRamp()=0, every timer and
\* speed at its initial constant and every entity collection at its initial
\* contents, so that apart from values drawn from the seeded generator the
\* state equals the state right after construction.
C30_ResetRestoresStart ==
    /\ ret.op \in {"new", "reset"} => StartingConfiguration /\ DifficultyRamp = 0
    /\ ret.op = "reset" => frames = 0 /\ ~ended

\* Reset has returned in an Asterix game whose generator has been drawn from,
\* that is, after at least one spawn
C30_Witness ==
    /\ game = "asterix"
    /\ ret.op = "reset"
    /\ resets = 1
    /\ \A seed \in 0 .. NumSeeds - 1 : rng # NewSource(seed)

\* the ramp index and the two intervals of the fields n after an Act call
\* made on the fields s
RampedFrom(s, n) ==
    IF n.rampIndex = s.rampIndex + 1
    THEN /\ n.spawnSpeed = IF s.spawnSpeed = 1 THEN 1 ELSE s.spawnSpeed - 1
         /\ n.moveSpeed = IF s.rampIndex % 2 = 1 /\ s.moveSpeed > 1
                          THEN s.moveSpeed - 1 ELSE s.moveSpeed
    ELSE /\ n.rampIndex = s.rampIndex
         /\ n.spawnSpeed = s.spawnSpeed
         /\ n.moveSpeed = s.moveSpeed

\* C31: in Asterix, each ramp increment lowers the spawn interval by one
\* unless it is already 1, and lowers the move interval by one only when the
\* ramp index before the increment is odd and the interval is above 1; both
\* intervals always stay >= 1 and the ramp index never exceeds 9.
C31_RampLowersIntervals ==
    game = "asterix" =>
        /\ ast.spawnSpeed >= 1
        /\ ast.moveSpeed >= 1
        /\ ast.rampIndex <= 9
        /\ \A a \in ValidCodes : RampedFrom(ast, Act(a).s)

\* the ninth increment has been made: both intervals are 1
C31_Witness ==
    /\ game = "asterix"
    /\ ret.op = "act"
    /\ ~ast.terminal
    /\ ast.rampIndex = 9
    /\ ast.spawnSpeed = 1
    /\ ast.moveSpeed = 1
    /\ frames > 918

\* an increment at an even ramp index has left the move interval alone
C31_WitnessEven ==
    /\ game = "asterix"
    /\ ret.op = "act"
    /\ ast.rampIndex = 3
    /\ ast.rampTimer = rampInterval
    /\ ast.spawnSpeed = initSpawnSpeed - 3
    /\ ast.moveSpeed = initMoveInterval - 1

\* the entities of the fields n after an Act call made on the running fields
\* s: those that s already held and n still holds, and those spawned by the
\* call at a side of the screen
MovedFrom(s, n) ==
    \A i \in 0 .. maxEntities - 1 :
        n.entities[i].live =>
            IF s.entities[i].live
            THEN /\ n.entities[i].y = s.entities[i].y
                 /\ n.entities[i].dir = s.entities[i].dir
                 /\ n.entities[i].x =
                        IF s.moveTimer = 0
                        THEN s.entities[i].x + s.entities[i].dir
                        ELSE s.entities[i].x
            ELSE n.entities[i].x =
                        IF s.moveTimer = 0
                        THEN (IF n.entities[i].dir = 1 THEN 1 ELSE cols - 2)
                        ELSE (IF n.entities[i].dir = 1 THEN 0 ELSE cols - 1)

\* C32: in Asterix, during an Act call in which the player's move timer is
\* not 0, no live entity changes position; during a call in which it is 0,
\* every live entity moves exactly one column in its own direction and the
\* move timer is reloaded with the current move interval (and has counted
\* down by one when the call returns).
C32_EntitiesMoveWithTimer ==
    game = "asterix" /\ ~ast.terminal =>
        \A a \in ValidCodes :
            /\ MovedFrom(ast, Act(a).s)
            /\ Act(a).s.moveTimer =
                   IF ast.moveTimer = 0 THEN ast.moveSpeed - 1
                   ELSE ast.moveTimer - 1

\* the move timer of a running game is 0 while four entities are on the
\* board, and all four are still there after the next call
C32_Witness ==
    /\ game = "asterix"
    /\ ret.op = "act"
    /\ ~ast.terminal
    /\ ast.moveTimer = 0
    /\ ast.moveSpeed > 1
    /\ Cardinality(LiveSlots(ast)) = 4
    /\ LiveSlots(ast) \subseteq LiveSlots(Act(0).s)

\* entities are on the board while the move timer is not 0
C32_WitnessWaiting ==
    /\ game = "asterix"
    /\ ret.op = "act"
    /\ ~ast.terminal
    /\ ast.moveTimer > 0
    /\ Cardinality(LiveSlots(ast)) = 4

\* the slots whose entity in e is live, of the given kind, and on the cell
\* (x, y)
SlotsAt(e, x, y, gold) ==
    {i \in 0 .. maxEntities - 1 :
        e[i].live /\ e[i].gold = gold /\ e[i].x = x /\ e[i].y = y}

\* the slots whose entity in e comes onto the cell (x, y) with the entities'
\* move of a call whose move timer is up
SlotsOnto(e, x, y, gold, canMove) ==
    IF canMove
    THEN {i \in 0 .. maxEntities - 1 :
             e[i].live /\ e[i].gold = gold /\ e[i].x + e[i].dir = x
                       /\ e[i].y = y}
    ELSE {}

\* the outcome o of an Act call whose entities after the spawn step were e
\* and whose move timer was up or not: met are the gold entities that shared
\* the player's cell, hit the other entities that did
CollectedFrom(e, canMove, o) ==
    LET met == SlotsAt(e, o.s.x, o.s.y, TRUE) \cup
               SlotsOnto(e, o.s.x, o.s.y, TRUE, canMove)
        hit == SlotsAt(e, o.s.x, o.s.y, FALSE) \cup
               SlotsOnto(e, o.s.x, o.s.y, FALSE, canMove)
    IN  /\ o.reward = Cardinality(met)
        /\ \A i \in met : ~o.s.entities[i].live
        /\ o.terminal = (hit # {})
        /\ ~o.terminal =>
               SlotsAt(o.s.entities, o.s.x, o.s.y, TRUE) \cup
               SlotsAt(o.s.entities, o.s.x, o.s.y, FALSE) = {}

\* C33: in Asterix, whenever an Act call returns terminal=false, no live
\* entity occupies the player's cell afterwards: each gold entity that shared
\* the player's cell (after the player's move or after the entities' move)
\* has been removed and has added exactly +1 to the reward, and sharing a
\* cell with a non-gold entity makes the call return terminal=true.
C33_ContactResolved ==
    game = "asterix" /\ ~ast.terminal =>
        \A a \in ValidCodes :
            CollectedFrom(AsterixSpawn(ast, rng).s.entities,
                          ast.moveTimer = 0, Act(a))

\* in a running game one action collects a gold entity and another runs
\* into an enemy
C33_Witness ==
    /\ game = "asterix"
    /\ ret.op = "act"
    /\ ~ast.terminal
    /\ \E a \in ValidCodes : Act(a).reward = 1 /\ ~Act(a).terminal
    /\ \E a \in ValidCodes : Act(a).terminal

\* the bricks that the fields n no longer hold of those the fields s held
BricksRemoved(s, n) == s.brickMap \ n.brickMap

\* the outcome o of an Act call made on the fields s removes at most one
\* brick and rewards exactly a removal
RewardedFrom(s, o) ==
    /\ Cardinality(BricksRemoved(s, o.s)) <= 1
    /\ o.reward = IF BricksRemoved(s, o.s) # {} THEN 1 ELSE 0

\* C34: in Breakout, each Act call removes at most one brick, and its reward
\* is 1 exactly when a brick was removed in that call and 0 otherwise, so the
\* cumulative reward of an episode always equals the number of bricks removed.
C34_RewardPerBrick ==
    game = "breakout" => \A a \in ValidCodes : RewardedFrom(brk, Act(a))

\* the ball of a running game is about to break a brick
C34_Witness ==
    /\ game = "breakout"
    /\ ret.op = "act"
    /\ ~brk.terminal
    /\ Act(0).reward = 1
    /\ Cardinality(BricksRemoved(brk, Act(0).s)) = 1

\* the row and the column of the ball's next cell, the column kept inside
\* the side walls
NextBallRow(s) == IF s.ballDir \in {0, 1} THEN s.ballY - 1 ELSE s.ballY + 1

NextBallColumn(s) ==
    IF s.ballDir \in {0, 3} THEN MaxInt(0, s.ballX - 1)
    ELSE MinInt(cols - 1, s.ballX + 1)

\* the outcome o of an Act call made on the running fields s
MissedFrom(s, o) ==
    /\ o.terminal = /\ NextBallRow(s) = rows - 1
                    /\ o.s.position # s.ballX
                    /\ o.s.position # NextBallColumn(s)
    /\ ~o.terminal => /\ o.s.ballY \in 0 .. rows - 2
                      /\ o.s.ballX \in 0 .. cols - 1
                      /\ ~o.s.terminal

\* C35: in Breakout, an Act call sets terminal exactly when the ball's next
\* cell is in the bottom row and the paddle is neither under the ball's
\* current column nor under its arrival column; in every other case the ball
\* ends the step inside the grid in rows 0..8 and the episode continues.
C35_TerminalOnMiss ==
    game = "breakout" /\ ~brk.terminal =>
        \A a \in ValidCodes : MissedFrom(brk, Act(a))

\* the ball is above the bottom row on its way down: one action misses it,
\* one catches it under its current column and one under its arrival column
C35_Witness ==
    /\ BallBottom
    /\ ret.op = "act"
    /\ \E a \in ValidCodes : Act(a).terminal
    /\ \E a \in ValidCodes :
           ~Act(a).terminal /\ Act(a).s.position = brk.ballX
    /\ \E a \in ValidCodes :
           /\ ~Act(a).terminal
           /\ Act(a).s.position # brk.ballX
           /\ Act(a).s.position = NextBallColumn(brk)

\* the outcome o of an Act call with the valid action a made on the running
\* fields s with the generator at r: up says that the call moves the player
\* one row up
WonFrom(s, r, a, o) ==
    LET up == actionMap[a + 1] = "u" /\ s.moveTimer = 0
    IN  IF up /\ s.position - 1 <= 0
        THEN /\ o.reward = 1
             /\ o.s.position = 9
             /\ o.rng = AdvanceBy(r, 2 * freewayRows)
             /\ \A i \in 0 .. freewayRows - 1 :
                    /\ o.s.cars[i].x = s.cars[i].x
                    /\ o.s.cars[i].y = s.cars[i].y
                    /\ o.s.cars[i].speed \in (-4 .. -1) \cup (1 .. 4)
                    /\ o.s.cars[i].timer = Abs(o.s.cars[i].speed) - 1
        ELSE /\ o.reward = 0
             /\ o.rng = r
             /\ \A i \in 0 .. freewayRows - 1 :
                    o.s.cars[i].speed = s.cars[i].speed

\* C36: in Freeway, an Act call returns reward 1 exactly when the player's
\* move in that call brings it to row 0, in which case the player is returned
\* to row 9 and every car's speed and direction is redrawn while car columns
\* are kept; every other call with a valid action returns reward 0.
C36_RewardAtTop ==
    game = "freeway" /\ ~fw.terminal =>
        \A a \in ValidCodes : WonFrom(fw, rng, a, Act(a))

\* the player is in row 1 and may move: 'up' wins, the no-op does not
C36_Witness ==
    /\ game = "freeway"
    /\ ret.op = "act"
    /\ ~fw.terminal
    /\ fw.position = 1
    /\ fw.moveTimer = 0
    /\ Act(2).reward = 1
    /\ Act(0).reward = 0
    /\ \E i \in 0 .. freewayRows - 1 : fw.cars[i].x # 0

\* the next Act call on the running SeaQuest game starts with an enemy spawn
EnemySpawnDue ==
    /\ game = "seaquest"
    /\ ~sq.terminal
    /\ sq.eSpawnTimer = 0

\* the direction of the enemy that spawnEnemy draws from the generator at r:
\* 1 right, -1 left
CandidateDir(r) == IF Intn(r, 2) = 1 THEN 1 ELSE -1

\* the row that spawnEnemy draws from the generator at r
CandidateRow(r) == Intn(AdvanceBy(r, 2), rows - 2) + 1

\* a live fish or submarine of the fields s is in row y and moves in
\* direction d
EnemyInRow(s, y, d) ==
    \/ \E k \in 1 .. Len(s.eFish) : s.eFish[k].y = y /\ s.eFish[k].dir = d
    \/ \E k \in 1 .. Len(s.eSubs) : s.eSubs[k].y = y /\ s.eSubs[k].dir = d

\* the spawn that led from fields s to fields n added no enemy
SpawnDropped(s, n) ==
    Len(n.eFish) = Len(s.eFish) /\ Len(n.eSubs) = Len(s.eSubs)

\* C37: in SeaQuest, an enemy spawn is dropped (with no retry on another row)
\* if and only if a live fish or submarine already in the candidate row moves
\* in the direction opposite to the new enemy; an enemy moving in the same
\* direction in that row never blocks the spawn.
C37_SpawnDroppedIffOpposite ==
    EnemySpawnDue =>
        (SpawnDropped(sq, SeaQuestSpawnEnemy(sq, rng).s) <=>
             EnemyInRow(sq, CandidateRow(rng), 0 - CandidateDir(rng)))

\* the spawn is dropped whenever an enemy of the opposite direction is in the
\* candidate row
C37_OppositeBlocks ==
    EnemySpawnDue /\ EnemyInRow(sq, CandidateRow(rng), 0 - CandidateDir(rng))
        => SpawnDropped(sq, SeaQuestSpawnEnemy(sq, rng).s)

\* C38: in SeaQuest, in every reachable state no row holds two live enemies
\* (fish or submarines) that move in opposite directions.
C38_OneDirectionPerRow ==
    game = "seaquest" =>
        \A y \in 0 .. rows - 1 :
            ~(EnemyInRow(sq, y, 1) /\ EnemyInRow(sq, y, -1))

\* a spawn is due in a row that holds an enemy moving the other way, and the
\* call drops it
C38_Witness ==
    /\ EnemySpawnDue
    /\ ret.op = "act"
    /\ EnemyInRow(sq, CandidateRow(rng), 0 - CandidateDir(rng))
    /\ SpawnDropped(sq, Act(0).s)
    /\ ~Act(0).terminal

\* the fields n after an Act call made on the fields s: the count of divers
\* aboard stays in range, rises only from below 6, and every diver it rises
\* by has left the grid
BoardedFrom(s, n) ==
    /\ n.divers \in 0 .. maxDivers
    /\ n.divers > s.divers =>
           /\ s.divers < maxDivers
           /\ Len(n.diverList) + (n.divers - s.divers) <=
                  Len(s.diverList) + (IF s.dSpawnTimer = 0 THEN 1 ELSE 0)

\* C39: in SeaQuest, the number of divers aboard is always between 0 and 6: a
\* diver sharing the player's cell is picked up (removed from the grid and
\* counted) only while fewer than 6 are aboard, and the count is never
\* decremented below 0.
C39_DiversAboardInRange ==
    game = "seaquest" =>
        /\ sq.divers \in 0 .. maxDivers
        /\ \A a \in ValidCodes : BoardedFrom(sq, Act(a).s)

\* six divers are aboard and a diver shares the player's cell
C39_Witness ==
    /\ game = "seaquest"
    /\ ret.op = "act"
    /\ ~sq.terminal
    /\ sq.divers = maxDivers
    /\ \E k \in 1 .. Len(sq.diverList) : AtPlayer(sq, sq.diverList[k])

\* the sixth diver is about to be taken aboard
C39_WitnessSixth ==
    /\ game = "seaquest"
    /\ ~sq.terminal
    /\ sq.divers = maxDivers - 1
    /\ \E a \in ValidCodes : Act(a).s.divers = maxDivers

\* a fish or submarine of the fields s is on the cell (x, y)
EnemyAt(s, x, y) ==
    \/ \E k \in 1 .. Len(s.eFish) : s.eFish[k].x = x /\ s.eFish[k].y = y
    \/ \E k \in 1 .. Len(s.eSubs) : s.eSubs[k].x = x /\ s.eSubs[k].y = y

\* the player of the running SeaQuest game may shoot, no friendly bullet is
\* in flight, and an enemy is on the cell in front of the player: a bullet
\* fired now moves onto that enemy in the same call
TargetAhead ==
    /\ game = "seaquest"
    /\ ~sq.terminal
    /\ sq.shotTimer = 0
    /\ sq.fBullets = <<>>
    /\ sq.y > 0
    /\ EnemyAt(sq, sq.x + sq.dir, sq.y)


\* C40: in SeaQuest, when a friendly bullet and an enemy fish or submarine
\* come to occupy the same cell, both the enemy and the bullet are removed and
\* exactly +1 reward is given, whether the bullet moved onto the enemy or the
\* enemy moved onto the bullet; hence one bullet destroys at most one enemy.
\* Stated for the bullet that moves onto the enemy in the call that fires it.
C40_HitRemovesBullet ==
    TargetAhead =>
        /\ Act(5).reward = 1
        /\ ~EnemyAt(Act(5).s, sq.x + sq.dir, sq.y)
        /\ Act(5).s.fBullets = <<>>

\* the same call as far as the enemy and the reward go: the enemy in front of
\* the player is gone and the call returns +1
C40_HitRemovesEnemy ==
    TargetAhead =>
        /\ Act(5).reward >= 1
        /\ Len(Act(5).s.eFish) + Len(Act(5).s.eSubs) <
               Len(SeaQuestSpawnEnemy(sq, rng).s.eFish) +
               Len(SeaQuestSpawnEnemy(sq, rng).s.eSubs)

=============================================================================
